---- MODULE Spec2Model ----
(***************************************************************************)
(* Document segmentation core of pdf2neo4j-italian-tax: TOC boundary       *)
(* detection (toc_extractor.py), section segmentation, TOC filtering and   *)
(* hierarchy (section_extractor.py), chunking (chunker.py) and the stage   *)
(* sequence of the pipeline (pipeline.py).                                 *)
(*                                                                         *)
(* Text is a sequence of one-character strings, so that the regular        *)
(* expressions, strip(), split() and slicing of the source are computed    *)
(* character by character.                                                 *)
(***************************************************************************)
EXTENDS Integers, Sequences, FiniteSets, TLC

VARIABLES pc, docType, documentId, pages, fullText, toc, rawSections,
          sections, chunks, chunk_size, overlap, rechunks, workers, frame,
          results, graph, tx

vars == <<pc, docType, documentId, pages, fullText, toc, rawSections,
          sections, chunks, chunk_size, overlap, rechunks, workers, frame,
          results, graph, tx>>

(***************************************************************************)
(* Python values                                                           *)
(***************************************************************************)
\* Optional[...] = None is the empty tuple; a present value v is <<v>>.
None == <<>>

\* a present Optional value
Some(v) == <<v>>

\* str.isspace / regex \s on the characters of the model's alphabet
Space == {" ", "\n", "\t", "\r"}

\* regex \d
Digit == {"0", "1", "2", "3", "4", "5", "6", "7", "8", "9"}

\* regex [.!?]
Punct == {".", "!", "?"}

\* the letters A-Z
UpperAZ == {"A", "B", "C", "D", "E", "F", "G", "H", "I", "J", "K", "L", "M",
            "N", "O", "P", "Q", "R", "S", "T", "U", "V", "W", "X", "Y", "Z"}

\* the letters a-z, in the order of UpperSeq
LowerSeq == <<"a", "b", "c", "d", "e", "f", "g", "h", "i", "j", "k", "l", "m",
              "n", "o", "p", "q", "r", "s", "t", "u", "v", "w", "x", "y", "z">>

UpperSeq == <<"A", "B", "C", "D", "E", "F", "G", "H", "I", "J", "K", "L", "M",
              "N", "O", "P", "Q", "R", "S", "T", "U", "V", "W", "X", "Y", "Z">>

\* str.upper() of one character
UpperChar(c) ==
    IF \E k \in 1..26 : LowerSeq[k] = c
    THEN UpperSeq[CHOOSE k \in 1..26 : LowerSeq[k] = c]
    ELSE c

\* str.upper()
Upper(s) == [i \in 1..Len(s) |-> UpperChar(s[i])]

\* c * n
Rep(c, n) == [i \in 1..n |-> c]

\* s[a:b] of Python with 0 <= a, as a 1-based subsequence (b may exceed len)
Slice(s, a, b) == SubSeq(s, a + 1, IF b < Len(s) THEN b ELSE Len(s))

\* s[:n] with n >= 0
Prefix(s, n) == Slice(s, 0, n)

\* the least index of lo..hi in the set S of matching indices, or hi + 1 when
\* there is none: the position a left-to-right scan (a regex search, a loop
\* with break) stops at
FirstIdx(lo, hi, S) ==
    IF lo > hi THEN hi + 1
    ELSE CHOOSE j \in lo..(hi + 1) :
            /\ j = hi + 1 \/ j \in S
            /\ \A k \in lo..(j - 1) : k \notin S

\* the greatest index of lo..hi in the set S, or lo - 1 when there is none
LastIdx(lo, hi, S) ==
    IF lo > hi THEN lo - 1
    ELSE CHOOSE j \in (lo - 1)..hi :
            /\ j = lo - 1 \/ j \in S
            /\ \A k \in (j + 1)..hi : k \notin S

\* the index after the maximal run of characters of class C that starts at i
RunEnd(s, i, C) == FirstIdx(i, Len(s), {j \in i..Len(s) : s[j] \notin C})

\* the index after the maximal run of characters outside class C from i
RunEndNot(s, i, C) == FirstIdx(i, Len(s), {j \in i..Len(s) : s[j] \in C})

\* the index before the maximal run of class C that ends at i
RunStartBack(s, i, C) == LastIdx(1, i, {j \in 1..i : s[j] \notin C})

\* str.lstrip()
LStrip(s) == SubSeq(s, RunEnd(s, 1, Space), Len(s))

\* str.rstrip()
RStrip(s) == SubSeq(s, 1, RunStartBack(s, Len(s), Space))

\* str.strip()
Strip(s) == RStrip(LStrip(s))

\* does the literal w occur in s at 1-based index i
At(s, i, w) ==
    /\ i >= 1
    /\ i + Len(w) - 1 <= Len(s)
    /\ \A k \in 1..Len(w) : s[i + k - 1] = w[k]

\* does w occur at index i of s.upper()
AtUpper(s, i, w) ==
    /\ i >= 1
    /\ i + Len(w) - 1 <= Len(s)
    /\ \A k \in 1..Len(w) : UpperChar(s[i + k - 1]) = w[k]

\* `w in s`
Contains(s, w) == \E i \in 1..(Len(s) - Len(w) + 1) : At(s, i, w)

\* s.startswith(w)
StartsWith(s, w) == At(s, 1, w)

\* s.endswith(w)
EndsWith(s, w) == At(s, Len(s) - Len(w) + 1, w)

\* str.split(sep) restricted to s[a..b], for a one-character separator: the
\* pieces left of a separator, then the pieces right of it (the recursion
\* halves the range so that long texts stay within the evaluator's stack)
RECURSIVE SplitRange(_, _, _, _)
SplitRange(s, a, b, sep) ==
    LET mid == (a + b) \div 2
        fwd == FirstIdx(mid, b, {j \in mid..b : s[j] = sep})
        bwd == LastIdx(a, mid - 1, {j \in a..(mid - 1) : s[j] = sep})
        cut == IF fwd <= b THEN fwd ELSE bwd
    IN  IF a > b THEN << <<>> >>
        ELSE IF fwd > b /\ bwd < a THEN <<SubSeq(s, a, b)>>
        ELSE SplitRange(s, a, cut - 1, sep) \o SplitRange(s, cut + 1, b, sep)

\* str.split(sep)
Split(s, sep) == SplitRange(s, 1, Len(s), sep)

\* "".join(parts[a..b]), each part followed by the text `after`
RECURSIVE ConcatRange(_, _, _, _)
ConcatRange(parts, a, b, after) ==
    IF a > b THEN <<>>
    ELSE IF a = b THEN parts[a] \o after
    ELSE ConcatRange(parts, a, (a + b) \div 2, after)
         \o ConcatRange(parts, (a + b) \div 2 + 1, b, after)

\* sep.join(parts) for a one-character separator
Join(parts, sep) ==
    LET all == ConcatRange(parts, 1, Len(parts), <<sep>>)
    IN  SubSeq(all, 1, Len(all) - 1)

\* "".join(parts)
Concat(parts) == ConcatRange(parts, 1, Len(parts), <<>>)

\* int(digits) for a non-empty run of decimal digits
DigitValue(c) == CHOOSE v \in 0..9 : <<"0","1","2","3","4","5","6","7","8","9">>[v + 1] = c

RECURSIVE ParseInt(_)
ParseInt(ds) ==
    IF Len(ds) = 0 THEN 0
    ELSE 10 * ParseInt(SubSeq(ds, 1, Len(ds) - 1)) + DigitValue(ds[Len(ds)])

(***************************************************************************)
(* chunker.py                                                              *)
(***************************************************************************)
\* Chunker.chars_per_token
chars_per_token == 4

\* the single-chunk threshold of chunk_section
MIN_SPLIT_CHARS == 100

\* variant of _create_chunk that derives the chunk's section id from the
\* section's order instead of copying section.sectionId
_create_chunk_IdFromOrder(section, chunk_index, content, page_number) ==
    [chunkId     |-> <<section.sectionId, "CHK", chunk_index>>,
     documentId  |-> section.documentId,
     sectionId   |-> <<section.documentId, "SEC", section.order>>,
     content     |-> content,
     chunkIndex  |-> chunk_index,
     pageNumber  |-> page_number,
     metadata    |-> [section_number |-> section.sectionNumber,
                      section_type   |-> section.sectionType]]

\* Chunker._create_chunk
_create_chunk(section, chunk_index, content, page_number) ==
    [chunkId     |-> <<section.sectionId, "CHK", chunk_index>>,
     documentId  |-> section.documentId,
     sectionId   |-> section.sectionId,
     content     |-> content,
     chunkIndex  |-> chunk_index,
     pageNumber  |-> page_number,
     metadata    |-> [section_number |-> section.sectionNumber,
                      section_type   |-> section.sectionType]]

\* re.split(r'([.!?]+[\s\n]+)', text): the pieces and the captured separators
\* alternate; a separator is a maximal run of [.!?] followed by whitespace,
\* together with the maximal whitespace run after it.
IsSeparatorStart(s, i) ==
    /\ s[i] \in Punct
    /\ LET pe == RunEnd(s, i, Punct) IN pe <= Len(s) /\ s[pe] \in Space

RECURSIVE SentenceSplit(_, _)
SentenceSplit(s, start) ==
    LET i  == FirstIdx(start, Len(s), {j \in start..Len(s) : IsSeparatorStart(s, j)})
        we == RunEnd(s, RunEnd(s, i, Punct), Space)
    IN  IF i > Len(s) THEN <<SubSeq(s, start, Len(s))>>
        ELSE <<SubSeq(s, start, i - 1), SubSeq(s, i, we - 1)>>
             \o SentenceSplit(s, we)

\* the loop `for i in range(0, len(sentences) - 1, 2)` of _split_into_sentences
RECURSIVE RecombineSentences(_, _)
RecombineSentences(parts, i) ==
    IF i >= Len(parts) THEN <<>>
    ELSE LET sentence == Strip(parts[i] \o parts[i + 1])
         IN  (IF Len(sentence) > 0 THEN <<sentence>> ELSE <<>>)
             \o RecombineSentences(parts, i + 2)

\* Chunker._split_into_sentences
_split_into_sentences(text) ==
    LET parts  == SentenceSplit(text, 1)
        paired == RecombineSentences(parts, 1)
        last   == Strip(parts[Len(parts)])
        result == IF Len(parts) % 2 = 1 /\ Len(last) > 0
                  THEN Append(paired, last) ELSE paired
    IN  IF Len(result) > 0 THEN result ELSE <<text>>

\* variant of the slice that takes the first n characters, text[:n]
TailSlice_Head(text, n) == SubSeq(text, 1, n)

\* text[-overlap_chars:] ; Python's text[-0:] is the whole text
TailSlice(text, n) ==
    IF n = 0 THEN text ELSE SubSeq(text, Len(text) - n + 1, Len(text))

\* re.search(r'[.!?]\s+', s): 0 when there is no match, else the 1-based index
\* after the match (sentence_start.end() + 1)
BoundaryEnd(s) ==
    IF Len(s) < 2 THEN 0
    ELSE LET i == FirstIdx(1, Len(s) - 1,
                           {j \in 1..(Len(s) - 1) :
                               s[j] \in Punct /\ s[j + 1] \in Space})
         IN  IF i > Len(s) - 1 THEN 0 ELSE RunEnd(s, i + 1, Space)

\* Chunker._get_overlap_text
_get_overlap_text(text, overlap_chars) ==
    IF Len(text) <= overlap_chars THEN text
    ELSE LET overlap_text == TailSlice(text, overlap_chars)
             e == BoundaryEnd(overlap_text)
         IN  IF e > 0 THEN SubSeq(overlap_text, e, Len(overlap_text))
             ELSE overlap_text

\* variant of the loop body that does not advance chunk_index
ChunkLoopBody_SameIndex(section, st, sentence, chunk_size_chars, overlap_chars) ==
    IF Len(st.current_chunk_text) + Len(sentence) > chunk_size_chars
       /\ Len(st.current_chunk_text) > 0
    THEN [chunks |-> Append(st.chunks,
                        _create_chunk(section, st.chunk_index,
                                      Strip(st.current_chunk_text),
                                      section.pageNumber)),
          chunk_index |-> st.chunk_index,
          current_chunk_text |->
              _get_overlap_text(st.current_chunk_text, overlap_chars)
              \o <<" ">> \o sentence]
    ELSE [st EXCEPT !.current_chunk_text = @ \o <<" ">> \o sentence]

\* variant of the loop body that closes a chunk whenever the sentence does
\* not fit, also when nothing is buffered
ChunkLoopBody_CloseEmpty(section, st, sentence, chunk_size_chars, overlap_chars) ==
    IF Len(st.current_chunk_text) + Len(sentence) > chunk_size_chars
    THEN [chunks |-> Append(st.chunks,
                        _create_chunk(section, st.chunk_index,
                                      Strip(st.current_chunk_text),
                                      section.pageNumber)),
          chunk_index |-> st.chunk_index + 1,
          current_chunk_text |->
              _get_overlap_text(st.current_chunk_text, overlap_chars)
              \o <<" ">> \o sentence]
    ELSE [st EXCEPT !.current_chunk_text = @ \o <<" ">> \o sentence]

\* one iteration of `for sentence in sentences` in chunk_section; st holds
\* the locals chunks, current_chunk_text and chunk_index
ChunkLoopBody(section, st, sentence, chunk_size_chars, overlap_chars) ==
    IF Len(st.current_chunk_text) + Len(sentence) > chunk_size_chars
       /\ Len(st.current_chunk_text) > 0
    THEN [chunks |-> Append(st.chunks,
                        _create_chunk(section, st.chunk_index,
                                      Strip(st.current_chunk_text),
                                      section.pageNumber)),
          chunk_index |-> st.chunk_index + 1,
          current_chunk_text |->
              _get_overlap_text(st.current_chunk_text, overlap_chars)
              \o <<" ">> \o sentence]
    ELSE [st EXCEPT !.current_chunk_text = @ \o <<" ">> \o sentence]

\* the loop `for sentence in sentences` of chunk_section, from sentence k on
RECURSIVE ChunkLoop(_, _, _, _, _, _)
ChunkLoop(section, st, sentences, k, chunk_size_chars, overlap_chars) ==
    IF k > Len(sentences) THEN st
    ELSE LET next == ChunkLoopBody(section, st, sentences[k],
                                   chunk_size_chars, overlap_chars)
         IN  ChunkLoop(section, next, sentences, k + 1,
                       chunk_size_chars, overlap_chars)

\* variant of the test that returns early for empty content only
IsShortContent_EmptyOnly(content) == Len(content) = 0

\* is the content short enough for the single-chunk path
IsShortContent(content) == Len(content) = 0 \/ Len(content) < MIN_SPLIT_CHARS

\* variant of chunk_section that returns without the final chunk
chunk_section_NoFinalChunk(section, cs, ov) ==
    IF IsShortContent(section.content)
    THEN <<_create_chunk(section, 0, section.content, section.pageNumber)>>
    ELSE ChunkLoop(section,
                   [chunks |-> <<>>, chunk_index |-> 0,
                    current_chunk_text |-> <<>>],
                   _split_into_sentences(section.content), 1,
                   cs * chars_per_token, ov * chars_per_token).chunks

\* Chunker.chunk_section, for a Chunker(chunk_size = cs, overlap = ov)
chunk_section(section, cs, ov) ==
    IF IsShortContent(section.content)
    THEN <<_create_chunk(section, 0, section.content, section.pageNumber)>>
    ELSE LET chunk_size_chars == cs * chars_per_token
             overlap_chars    == ov * chars_per_token
             sentences == _split_into_sentences(section.content)
             st == ChunkLoop(section,
                             [chunks |-> <<>>, chunk_index |-> 0,
                              current_chunk_text |-> <<>>],
                             sentences, 1, chunk_size_chars, overlap_chars)
         IN  IF Len(Strip(st.current_chunk_text)) > 0
             THEN Append(st.chunks,
                         _create_chunk(section, st.chunk_index,
                                       Strip(st.current_chunk_text),
                                       section.pageNumber))
             ELSE st.chunks

(***************************************************************************)
(* section_extractor.py                                                    *)
(***************************************************************************)
\* lines_per_page of extract_sections
lines_per_page == 50

\* the short-content threshold of _filter_toc_sections
TOC_SHORT_CONTENT == 100

\* the title limit header[:200] of _create_section
TITLE_LIMIT == 200

\* the repetition count {10,} of the fourth numbered pattern
CAPS_RUN_MIN == 10

\* characters of the range À-Ÿ (U+00C0..U+0178) that Italian text uses; the
\* range holds the lower-case accented letters as well
LatinRange == {"À", "È", "É", "Ì", "Ò", "Ù", "à", "è", "é", "ì", "ò", "ù"}

\* regex [A-ZÀ-Ÿ]
UpperClass == UpperAZ \cup LatinRange

\* regex [A-ZÀ-Ÿ\s]
UpperOrSpace == UpperClass \cup Space

\* regex [A-ZÀ-Ÿ\s] under re.IGNORECASE
LetterOrSpace == UpperOrSpace \cup {LowerSeq[k] : k \in 1..26}

\* SectionExtractor.named_sections, in list order: ^head\s*:? when tail is
\* empty (the optional \s*:? always matches), ^head\s+tail otherwise
named_sections ==
    <<
      [head |-> <<"O", "G", "G", "E", "T", "T", "O">>,
       tail |-> <<>>],
      [head |-> <<"Q", "U", "E", "S", "I", "T", "O">>,
       tail |-> <<>>],
      [head |-> <<"S", "O", "L", "U", "Z", "I", "O", "N", "E">>,
       tail |-> <<"I", "N", "T", "E", "R", "P", "R", "E", "T", "A", "T", "I", "V", "A">>],
      [head |-> <<"P", "A", "R", "E", "R", "E">>,
       tail |-> <<"D", "E", "L", "L">>],
      [head |-> <<"M", "O", "T", "I", "V", "A", "Z", "I", "O", "N", "E">>,
       tail |-> <<>>],
      [head |-> <<"C", "O", "N", "C", "L", "U", "S", "I", "O", "N", "E">>,
       tail |-> <<>>],
      [head |-> <<"I", "N", "D", "I", "C", "E">>,
       tail |-> <<>>],
      [head |-> <<"P", "R", "E", "M", "E", "S", "S", "A">>,
       tail |-> <<>>],
      [head |-> <<"R", "I", "S", "P", "O", "S", "T", "A">>,
       tail |-> <<>>],
      [head |-> <<"I", "S", "T", "A", "N", "Z", "A">>,
       tail |-> <<>>],
      [head |-> <<"S", "O", "M", "M", "A", "R", "I", "O">>,
       tail |-> <<>>]
    >>

\* re.match(named_sections[k], line, re.IGNORECASE)
MatchesNamed(line, k) ==
    LET p == named_sections[k]
        e == RunEnd(line, Len(p.head) + 1, Space)
    IN  /\ AtUpper(line, 1, p.head)
        /\ Len(p.tail) > 0 => (e > Len(p.head) + 1 /\ AtUpper(line, e, p.tail))

\* the index after ^\d+(\.\d+){groups - 1}, or 0 when the line does not
\* start with that many dot-separated digit groups
RECURSIVE DottedEnd(_, _, _)
DottedEnd(line, from, groups) ==
    LET e == RunEnd(line, from, Digit)
    IN  IF e = from THEN 0
        ELSE IF groups = 1 THEN e
        ELSE IF e <= Len(line) /\ line[e] = "." 
             THEN DottedEnd(line, e + 1, groups - 1)
             ELSE 0

\* is index w the start of \s+[A-ZÀ-Ÿ] ... : whitespace from `from`, then a
\* capital; the result is the index of the capital, or 0
CapitalAfterSpace(line, from) ==
    LET w == RunEnd(line, from, Space)
    IN  IF w > from /\ w <= Len(line) /\ line[w] \in UpperClass THEN w ELSE 0

\* re.match(numbered_patterns[k], line), k = 1..4 in list order
MatchesNumbered(line, k) ==
    LET d1 == DottedEnd(line, 1, 1)
    IN  CASE k = 1 -> /\ d1 > 0
                      /\ d1 <= Len(line) /\ line[d1] = "."
                      /\ CapitalAfterSpace(line, d1 + 1) > 0
          [] k = 2 -> LET d == DottedEnd(line, 1, 2)
                      IN  d > 0 /\ CapitalAfterSpace(line, d) > 0
          [] k = 3 -> LET d == DottedEnd(line, 1, 3)
                      IN  d > 0 /\ CapitalAfterSpace(line, d) > 0
          [] k = 4 -> LET w == IF d1 > 0 THEN CapitalAfterSpace(line, d1) ELSE 0
                      IN  /\ w > 0
                          /\ RunEnd(line, w + 1, UpperOrSpace) - (w + 1)
                               >= CAPS_RUN_MIN

\* variant of _extract_level that answers 1 for every header
_extract_level_One(header) == 1

\* SectionExtractor._extract_level
_extract_level(header) ==
    LET groups == {g \in 1..Len(header) : DottedEnd(header, 1, g) > 0}
    IN  IF groups = {} THEN 1
        ELSE CHOOSE g \in groups : \A h \in groups : h <= g

\* SectionExtractor._is_section_header: <<is_section, section_type, level>>
_is_section_header(line) ==
    IF \E k \in 1..Len(named_sections) : MatchesNamed(line, k)
    THEN <<TRUE, "named", 1>>
    ELSE IF \E k \in 1..4 : MatchesNumbered(line, k)
         THEN <<TRUE, "numbered", _extract_level(line)>>
         ELSE <<FALSE, "None", 0>>

\* SectionExtractor._extract_section_number
_extract_section_number(header) ==
    LET level == _extract_level(header)
        e     == RunEnd(header, 1, LetterOrSpace)
    IN  IF DottedEnd(header, 1, 1) > 0
        THEN SubSeq(header, 1, DottedEnd(header, 1, level) - 1)
        ELSE IF (\E k \in 1..Len(named_sections) : MatchesNamed(header, k))
                /\ e > 1
             THEN Upper(Strip(SubSeq(header, 1, e - 1)))
             ELSE <<"U", "N", "K", "N", "O", "W", "N">>

\* f"{document.documentId}_SEC_{order}"
SectionId(docId, order) == <<docId, "SEC", order>>

\* SectionExtractor._create_section
_create_section(docId, order, header, content_lines, section_type, page_number, level) ==
    [sectionId       |-> SectionId(docId, order),
     documentId      |-> docId,
     sectionNumber   |-> _extract_section_number(header),
     title           |-> Prefix(header, TITLE_LIMIT),
     content         |-> Strip(Join(content_lines, "\n")),
     sectionType     |-> section_type,
     level           |-> level,
     pageNumber      |-> page_number,
     order           |-> order,
     parentSectionId |-> None]

\* TableOfContents(...) as built by extract_toc
TableOfContents(docId, rawText, endPage, hasHeader, headerText, entryCount, detectionMethod) ==
    [tocId           |-> <<docId, "TOC">>,
     documentId      |-> docId,
     rawText         |-> rawText,
     startPage       |-> 2,
     endPage         |-> endPage,
     hasHeader       |-> hasHeader,
     headerText      |-> headerText,
     entryCount      |-> entryCount,
     detectionMethod |-> detectionMethod]

\* the locals of extract_sections before its loop (lines 50-58)
SegmentStart ==
    [sections                   |-> <<>>,
     current_section_lines      |-> <<>>,
     current_section_start_line |-> 0,
     current_section_header     |-> None,
     current_section_type       |-> "None",
     current_page               |-> 1,
     section_counter            |-> 0]

\* variant of the test that looks at the header only
HasOpenContent_HeaderOnly(st) == Len(st.current_section_header) > 0

\* `if current_section_header and current_section_lines`
HasOpenContent(st) ==
    Len(st.current_section_header) > 0 /\ Len(st.current_section_lines) > 0

\* the section built from the open header and buffer (lines 78-86, 102-110)
OpenSection(docId, st) ==
    _create_section(docId, st.section_counter, st.current_section_header,
                    st.current_section_lines, st.current_section_type,
                    st.current_page, _extract_level(st.current_section_header))

\* variant of the loop body that does not advance section_counter
SegmentLoopBody_SameCounter(docId, st, line_num, line) ==
    LET line_stripped == Strip(line)
        paged  == [st EXCEPT !.current_page = (line_num \div lines_per_page) + 1]
        header == _is_section_header(line_stripped)
        saved  == IF HasOpenContent(paged)
                  THEN [paged EXCEPT
                          !.sections = Append(@, OpenSection(docId, paged))]
                  ELSE paged
    IN  IF Len(line_stripped) = 0 THEN paged
        ELSE IF header[1]
             THEN [saved EXCEPT !.current_section_header = line_stripped,
                                !.current_section_type = header[2],
                                !.current_section_lines = <<>>,
                                !.current_section_start_line = line_num]
             ELSE IF Len(paged.current_section_header) > 0
                  THEN [paged EXCEPT
                          !.current_section_lines = Append(@, line)]
                  ELSE paged

\* variant of the loop body that estimates the page on non-blank lines only
SegmentLoopBody_PageOnText(docId, st, line_num, line) ==
    LET line_stripped == Strip(line)
        paged  == [st EXCEPT !.current_page = (line_num \div lines_per_page) + 1]
        header == _is_section_header(line_stripped)
        saved  == IF HasOpenContent(paged)
                  THEN [paged EXCEPT
                          !.sections = Append(@, OpenSection(docId, paged)),
                          !.section_counter = @ + 1]
                  ELSE paged
    IN  IF Len(line_stripped) = 0 THEN st
        ELSE IF header[1]
             THEN [saved EXCEPT !.current_section_header = line_stripped,
                                !.current_section_type = header[2],
                                !.current_section_lines = <<>>,
                                !.current_section_start_line = line_num]
             ELSE IF Len(paged.current_section_header) > 0
                  THEN [paged EXCEPT
                          !.current_section_lines = Append(@, line)]
                  ELSE paged

\* variant of the loop body that keeps the buffered lines when a heading
\* opens the next section
SegmentLoopBody_KeepBuffer(docId, st, line_num, line) ==
    LET line_stripped == Strip(line)
        paged  == [st EXCEPT !.current_page = (line_num \div lines_per_page) + 1]
        header == _is_section_header(line_stripped)
        saved  == IF HasOpenContent(paged)
                  THEN [paged EXCEPT
                          !.sections = Append(@, OpenSection(docId, paged)),
                          !.section_counter = @ + 1]
                  ELSE paged
    IN  IF Len(line_stripped) = 0 THEN paged
        ELSE IF header[1]
             THEN [saved EXCEPT !.current_section_header = line_stripped,
                                !.current_section_type = header[2],
                                !.current_section_start_line = line_num]
             ELSE IF Len(paged.current_section_header) > 0
                  THEN [paged EXCEPT
                          !.current_section_lines = Append(@, line)]
                  ELSE paged

\* one iteration of `for line_num, line in enumerate(lines)` (lines 63-98)
SegmentLoopBody(docId, st, line_num, line) ==
    LET line_stripped == Strip(line)
        paged  == [st EXCEPT !.current_page = (line_num \div lines_per_page) + 1]
        header == _is_section_header(line_stripped)
        saved  == IF HasOpenContent(paged)
                  THEN [paged EXCEPT
                          !.sections = Append(@, OpenSection(docId, paged)),
                          !.section_counter = @ + 1]
                  ELSE paged
    IN  IF Len(line_stripped) = 0 THEN paged
        ELSE IF header[1]
             THEN [saved EXCEPT !.current_section_header = line_stripped,
                                !.current_section_type = header[2],
                                !.current_section_lines = <<>>,
                                !.current_section_start_line = line_num]
             ELSE IF Len(paged.current_section_header) > 0
                  THEN [paged EXCEPT
                          !.current_section_lines = Append(@, line)]
                  ELSE paged

\* the loop over lines[a..b] (1-based; line_num = index - 1), run in order:
\* first the lower half from st, then the upper half from its result (the
\* test of left.current_page, which is always >= 1, only makes the evaluator
\* finish the lower half before it starts the upper half)
RECURSIVE SegmentLoop(_, _, _, _, _)
SegmentLoop(docId, st, lines, a, b) ==
    IF a > b THEN st
    ELSE IF a = b THEN SegmentLoopBody(docId, st, a - 1, lines[a])
    ELSE LET m    == (a + b) \div 2
             left == SegmentLoop(docId, st, lines, a, m)
         IN  IF left.current_page >= 1
             THEN SegmentLoop(docId, left, lines, m + 1, b)
             ELSE left

\* extract_sections up to and including `# Add last section` (lines 50-111):
\* the list `sections` before TOC filtering
SegmentSections(docId, text) ==
    LET lines == Split(text, "\n")
        st    == SegmentLoop(docId, SegmentStart, lines, 1, Len(lines))
    IN  IF HasOpenContent(st)
        THEN Append(st.sections, OpenSection(docId, st))
        ELSE st.sections

\* variant of the test that looks at the page range only
IsTocSection_PageOnly(section, t) ==
    /\ t.startPage <= section.pageNumber
    /\ section.pageNumber <= t.endPage

\* the test of _filter_toc_sections that drops a section (lines 228-232)
IsTocSection(section, t) ==
    /\ t.startPage <= section.pageNumber
    /\ section.pageNumber <= t.endPage
    /\ Len(section.content) < TOC_SHORT_CONTENT

\* SectionExtractor._filter_toc_sections
_filter_toc_sections(secs, t) ==
    SelectSeq(secs, LAMBDA section : ~IsTocSection(section, t))

\* `if toc:` ... _filter_toc_sections (lines 114-116); toc is None or <<t>>
FilterIfToc(secs, optToc) ==
    IF optToc # None THEN _filter_toc_sections(secs, optToc[1]) ELSE secs

\* variant that leaves the order values of the emission
Renumber_Keep(secs) == secs

\* `for i, section in enumerate(sections): section.order = i`
Renumber(secs) == [i \in 1..Len(secs) |-> [secs[i] EXCEPT !.order = i - 1]]

\* variant of the loop body that leaves the deeper levels in parent_stack
HierarchyLoopBody_KeepDeeper(st, i) ==
    LET section == st.sections[i]
        level   == section.level
        linked  == IF level > 1 /\ (level - 1) \in DOMAIN st.parent_stack
                   THEN [section EXCEPT !.parentSectionId =
                            st.parent_stack[level - 1].sectionId]
                   ELSE section
    IN  [sections     |-> [st.sections EXCEPT ![i] = linked],
         parent_stack |-> [l \in DOMAIN st.parent_stack \cup {level} |->
                             IF l = level THEN linked ELSE st.parent_stack[l]]]

\* one iteration of the loop of _build_hierarchy: st holds the list with the
\* parents set so far and the dict parent_stack (level -> section)
HierarchyLoopBody(st, i) ==
    LET section == st.sections[i]
        level   == section.level
        linked  == IF level > 1 /\ (level - 1) \in DOMAIN st.parent_stack
                   THEN [section EXCEPT !.parentSectionId =
                            st.parent_stack[level - 1].sectionId]
                   ELSE section
        kept    == {l \in DOMAIN st.parent_stack : l < level}
    IN  [sections     |-> [st.sections EXCEPT ![i] = linked],
         parent_stack |-> [l \in kept \cup {level} |->
                             IF l = level THEN linked ELSE st.parent_stack[l]]]

RECURSIVE HierarchyLoop(_, _)
HierarchyLoop(st, i) ==
    IF i > Len(st.sections) THEN st
    ELSE LET next == HierarchyLoopBody(st, i) IN HierarchyLoop(next, i + 1)

\* SectionExtractor._build_hierarchy
_build_hierarchy(secs) ==
    IF Len(secs) = 0 THEN secs
    ELSE HierarchyLoop([sections |-> secs, parent_stack |-> << >>], 1).sections

\* variant that links the parents before the TOC entries are filtered out
FinishSections_LinkFirst(raw, optToc) ==
    Renumber(FilterIfToc(_build_hierarchy(raw), optToc))

\* SectionExtractor.extract_sections, from the unfiltered list on
FinishSections(raw, optToc) ==
    _build_hierarchy(Renumber(FilterIfToc(raw, optToc)))

\* SectionExtractor.extract_sections
extract_sections(docId, text, optToc) ==
    FinishSections(SegmentSections(docId, text), optToc)

(***************************************************************************)
(* toc_extractor.py                                                        *)
(***************************************************************************)
\* the slice actual_text.upper()[:500] of the PREMESSA validation
PREMESSA_WINDOW == 500

\* the slice actual_text[:200] of the first-section validation
FIRST_SECTION_WINDOW == 200

\* the literal PREMESSA
PREMESSA == <<"P", "R", "E", "M", "E", "S", "S", "A">>

\* the literal 1.1
ONE_DOT_ONE == <<"1", ".", "1">>

\* the alternatives of toc_header_pattern
TOC_HEADERS == {<<"I", "N", "D", "I", "C", "E">>, <<"S", "O", "M", "M", "A", "R", "I", "O">>}

\* doc[i] of PyMuPDF for a 0-based index i < len(doc): a negative index
\* counts from the last page
PageAt(doc, i) == IF i < 0 THEN doc[i + Len(doc) + 1] ELSE doc[i + 1]

\* does premessa_pattern PREMESSA[\s.]+(\d+) (IGNORECASE) match at index i
PremessaMatchAt(text, i) ==
    /\ AtUpper(text, i, PREMESSA)
    /\ LET e == RunEnd(text, i + Len(PREMESSA), Space \cup {"."})
       IN  e > i + Len(PREMESSA) /\ e <= Len(text) /\ text[e] \in Digit

\* premessa_pattern.search(text): None, or <<int(group(1))>>
PremessaSearch(text) ==
    LET i == FirstIdx(1, Len(text), {j \in 1..Len(text) : PremessaMatchAt(text, j)})
        d == RunEnd(text, i + Len(PREMESSA), Space \cup {"."})
    IN  IF i > Len(text) THEN None
        ELSE Some(ParseInt(SubSeq(text, d, RunEnd(text, d, Digit) - 1)))

\* does first_section_pattern 1\.1[^\d]*(\d+) match at index i
FirstSectionMatchAt(text, i) ==
    /\ At(text, i, ONE_DOT_ONE)
    /\ RunEndNot(text, i + Len(ONE_DOT_ONE), Digit) <= Len(text)

\* first_section_pattern.search(text): None, or <<int(group(1))>>
FirstSectionSearch(text) ==
    LET i == FirstIdx(1, Len(text), {j \in 1..Len(text) : FirstSectionMatchAt(text, j)})
        d == RunEndNot(text, i + Len(ONE_DOT_ONE), Digit)
    IN  IF i > Len(text) THEN None
        ELSE Some(ParseInt(SubSeq(text, d, RunEnd(text, d, Digit) - 1)))

\* toc_header_pattern ^\s*(INDICE|SOMMARIO)\s*$ (IGNORECASE, MULTILINE):
\* None, or <<group(1).upper()>> of the first line that holds only the word
HeaderSearch(text) ==
    LET lines == Split(text, "\n")
        i == FirstIdx(1, Len(lines),
                      {j \in 1..Len(lines) : Upper(Strip(lines[j])) \in TOC_HEADERS})
    IN  IF i > Len(lines) THEN None ELSE Some(Upper(Strip(lines[i])))

\* len(re.findall(r'^\s*\d+\.', text, re.MULTILINE)): the lines that start,
\* after whitespace, with digits and a dot
EntryCount(text) ==
    LET lines == Split(text, "\n")
    IN  Cardinality({j \in 1..Len(lines) :
            LET l == LStrip(lines[j])
                d == RunEnd(l, 1, Digit)
            IN  d > 1 /\ d <= Len(l) /\ l[d] = "."})

\* Method 1 (lines 62-72): None, or <<toc_end_page>>
PremessaBoundary(doc) ==
    LET m == PremessaSearch(doc[2])
    IN  IF m # None /\ m[1] <= Len(doc)
           /\ Contains(Prefix(Upper(PageAt(doc, m[1] - 1)), PREMESSA_WINDOW),
                       PREMESSA)
        THEN Some(m[1] - 1)
        ELSE None

\* Method 2 (lines 76-86): None, or <<toc_end_page>>
FirstSectionBoundary(doc) ==
    LET m == FirstSectionSearch(doc[2])
    IN  IF m # None /\ m[1] <= Len(doc)
           /\ Contains(Prefix(PageAt(doc, m[1] - 1), FIRST_SECTION_WINDOW),
                       ONE_DOT_ONE)
        THEN Some(m[1] - 1)
        ELSE None

\* variant of the loop that runs over range(1, toc_end_page + 1), taking in
\* the first content page
TocRawText_Inclusive(doc, toc_end_page) ==
    ConcatRange([k \in 1..(IF toc_end_page > 0 THEN toc_end_page ELSE 0)
                    |-> IF k < Len(doc) THEN PageAt(doc, k) ELSE <<>>],
                1, toc_end_page, <<"\n">>)

\* the loop `for page_num in range(1, toc_end_page)` (lines 93-96)
TocRawText(doc, toc_end_page) ==
    ConcatRange([k \in 1..(IF toc_end_page > 1 THEN toc_end_page - 1 ELSE 0)
                    |-> IF k < Len(doc) THEN PageAt(doc, k) ELSE <<>>],
                1, toc_end_page - 1, <<"\n">>)

\* variant of extract_toc that tries the first-section strategy before the
\* PREMESSA strategy
extract_toc_FirstSectionFirst(type, docId, doc) ==
    IF type # "Circolare" THEN None
    ELSE IF Len(doc) < 2 THEN None
    ELSE LET header   == HeaderSearch(doc[2])
             first    == FirstSectionBoundary(doc)
             premessa == IF first = None THEN PremessaBoundary(doc) ELSE None
             toc_end_page == IF first # None THEN first[1] ELSE premessa[1]
             detection_method == IF first # None THEN "FIRST_SECTION"
                                 ELSE "PREMESSA"
             toc_raw_text == TocRawText(doc, toc_end_page)
         IN  IF premessa = None /\ first = None THEN None
             ELSE Some(TableOfContents(docId, Strip(toc_raw_text),
                         toc_end_page, header # None,
                         IF header # None THEN header[1] ELSE None,
                         EntryCount(toc_raw_text), detection_method))

\* TOCExtractor.extract_toc: None, or <<TableOfContents>>
extract_toc(type, docId, doc) ==
    IF type # "Circolare" THEN None
    ELSE IF Len(doc) < 2 THEN None
    ELSE LET header   == HeaderSearch(doc[2])
             premessa == PremessaBoundary(doc)
             first    == IF premessa = None THEN FirstSectionBoundary(doc)
                         ELSE None
             toc_end_page == IF premessa # None THEN premessa[1] ELSE first[1]
             detection_method == IF premessa # None THEN "PREMESSA"
                                 ELSE "FIRST_SECTION"
             toc_raw_text == TocRawText(doc, toc_end_page)
         IN  IF premessa = None /\ first = None THEN None
             ELSE Some(TableOfContents(docId, Strip(toc_raw_text),
                         toc_end_page, header # None,
                         IF header # None THEN header[1] ELSE None,
                         EntryCount(toc_raw_text), detection_method))

(***************************************************************************)
(* pdf_parser.py and pipeline.py: the stages of process_document           *)
(***************************************************************************)
\* PDFParser.parse: full_text += page.get_text() for every page
ParseFullText(doc) == Concat(doc)

\* PDFParser._create_document_id for document number 1 of 2020
DocumentIdOf(type) == IF type = "Circolare" THEN "CIR_1_2020" ELSE "RIS_1_2020"

\* Stage 4 of process_document: all_chunks.extend(chunk_section(section))
\* for every section, in order
RECURSIVE AllChunks(_, _, _, _)
AllChunks(secs, i, cs, ov) ==
    IF i > Len(secs) THEN <<>>
    ELSE chunk_section(secs[i], cs, ov) \o AllChunks(secs, i + 1, cs, ov)

\* toc_pages of process_document (line 73)
TocPages(optToc) ==
    IF optToc # None THEN optToc[1].endPage - optToc[1].startPage + 1 ELSE 0

(***************************************************************************)
(* Inputs                                                                  *)
(***************************************************************************)
\* the most pages of a document given to the pipeline
MaxPages == 3

\* the most pages of a document given to extract_toc alone
MaxTocPages == 4

\* the greatest page number printed in a table of contents
MaxRef == 4

\* the most heading blocks of a text given to extract_sections
MaxBlocks == 3

\* the gap in a text fills at most MaxGapPages estimated pages
MaxGapPages == 2

\* the most body lines of a section given to chunk_section alone
MaxBodyLines == 3

\* str(n) for n >= 0
RECURSIVE IntToStr(_)
IntToStr(n) ==
    LET d == <<"0", "1", "2", "3", "4", "5", "6", "7", "8", "9">>[(n % 10) + 1]
    IN  IF n < 10 THEN <<d>> ELSE Append(IntToStr(n \div 10), d)

\* a sentence of 51 characters
LONG == Rep("a", 50) \o <<".">>

\* five sentences, 48 characters
MULTI == Concat([k \in 1..4 |-> Rep("b", 8) \o <<".", " ">>]) \o Rep("b", 7) \o <<"!">>

\* words without a sentence terminator, 47 characters
WORDS == Concat([k \in 1..9 |-> Rep("c", 4) \o <<" ">>]) \o <<"c", "c">>

\* a sentence of 31 characters
MID == Rep("e", 30) \o <<"?">>

\* the body lines a section is built from
BodyLines == {LONG, MULTI, WORDS, MID}

\* (chunk_size, overlap) of the Chunker, in tokens
Configs == {<<10, 0>>, <<10, 5>>, <<15, 5>>, <<30, 10>>, <<5, 1>>, <<5, 8>>}

\* sequences over S of length 0..n
SeqsUpTo(S, n) == UNION {[1..k -> S] : k \in 0..n}

\* heading lines of levels 1, 2 and 3
Headings == {PREMESSA,
             <<"1", ".", "1", " ", "B", "b">>,
             <<"1", ".", "1", ".", "1", " ", "C", "c">>}

\* body texts of 99 and of 100 characters
Bodies == {Rep("x", 99), LONG \o <<" ">> \o MULTI}

\* the blocks a text is made of: a heading line with its body line
Blocks == Headings \X Bodies

\* blank lines filling g estimated pages
GapLines(g) == Rep(<<>>, g * lines_per_page)

\* the lines of block k of a text whose gap of g pages stands in front of
\* block number at (at = Len(blocks) + 1: after the last block)
BlockLines(blocks, k, at, g) ==
    (IF k = at THEN GapLines(g) ELSE <<>>)
        \o (IF k <= Len(blocks) THEN <<blocks[k][1], blocks[k][2]>> ELSE <<>>)

\* the text of a sequence of blocks with one gap
TextOf(blocks, at, g) ==
    Join(Concat([k \in 1..(Len(blocks) + 1) |-> BlockLines(blocks, k, at, g)]), "\n")

\* the TOC boundaries handed to extract_sections: none, or pages 2 to 2
TocInputs ==
    {None, Some(TableOfContents("CIR_1_2020", <<>>, 2, FALSE, None, 0, "PREMESSA"))}

\* page 2 of a document: an optional INDICE header, an optional PREMESSA
\* entry with page number ka, an optional 1.1 entry with page number ks
\* (ka, ks = -1: no such entry)
Page2Text(header, ka, ks) ==
    (IF header THEN <<"I", "N", "D", "I", "C", "E", "\n">> ELSE <<>>)
    \o (IF ka >= 0 THEN PREMESSA \o <<" ", ".", " ">> \o IntToStr(ka) \o <<"\n">>
        ELSE <<>>)
    \o (IF ks >= 0 THEN <<"1", ".", "1", " ", "B", "b", " ", ".", " ">> \o IntToStr(ks) \o <<"\n">>
        ELSE <<>>)

\* the texts of the pages other than page 2
OtherPages == {<<"P", "r", "e", "m", "e", "s", "s", "a", "\n", "t", "e", "s", "t", "o", "\n">>,
               <<"1", ".", "1", " ", "B", "b", "\n", "t", "e", "s", "t", "o", "\n">>,
               <<"t", "e", "s", "t", "o", "\n">>}

\* documents given to extract_toc: n pages, page 2 a table of contents
TocDocs ==
    {[i \in 1..Len(others) |->
         IF i = 2 THEN Page2Text(h, ka, ks) ELSE others[i]] :
       others \in UNION {[1..n -> OtherPages] : n \in 1..MaxTocPages},
       h \in {FALSE}, ka \in -1..MaxRef, ks \in -1..MaxRef}

\* the 20-page document of the specification's example: page 2 names
\* PREMESSA on page 12, page 12 begins with PREMESSA
Example20 ==
    [i \in 1..20 |->
        IF i = 2 THEN <<"I", "N", "D", "I", "C", "E", "\n", "P", "R", "E", "M", "E", "S", "S", "A", " ", ".", ".", ".", ".", ".", ".", ".", ".", ".", ".", ".", " ", "1", "2", "\n">>
        ELSE IF i = 12 THEN <<"P", "R", "E", "M", "E", "S", "S", "A", "\n", "t", "e", "s", "t", "o", "\n">>
        ELSE IntToStr(i) \o <<"\n">>]

\* the pages of the documents given to the pipeline: a cover of one
\* estimated page, a table of contents whose entry wraps onto a second line,
\* the page the table of contents points at, a further body page
PipelinePages ==
    {<<"A">> \o Rep("\n", lines_per_page),
     <<"I", "N", "D", "I", "C", "E", "\n", "1", ".", " ", "A", "a", "\n", "t", "i", "t", "o", "l", "o", " ", ".", " ", "3", "\n", "P", "R", "E", "M", "E", "S", "S", "A", " ", ".", " ", "3", "\n">>,
     PREMESSA \o <<"\n">> \o LONG \o <<" ">> \o MULTI \o <<"\n", "1", ".", "1", " ", "B", "b", "\n", "c", "o", "r", "t", "o", "\n">>,
     <<"2", ".", " ", "D", "d", "\n">> \o Rep("x", 99) \o <<"\n">>}

(***************************************************************************)
(* The state machine                                                       *)
(***************************************************************************)
\* the state before process_document has run any stage
Blank ==
    /\ fullText = <<>>
    /\ toc = None
    /\ rawSections = <<>>
    /\ sections = <<>>
    /\ chunks = <<>>
    /\ rechunks = <<>>
    /\ workers = <<>>
    /\ results = <<>> /\ graph = {} /\ tx = None
    /\ frame = <<>>

\* process_document is called on a PDF
Init ==
    /\ pc = "parse"
    /\ docType \in {"Circolare", "Risoluzione"}
    /\ documentId = DocumentIdOf(docType)
    /\ pages \in UNION {[1..n -> PipelinePages] : n \in 1..MaxPages}
    /\ chunk_size = 10 /\ overlap = 5
    /\ Blank

\* documents of up to MaxPages pages, among them pages without any text and
\* the document without pages
AnyDocuments == UNION {[1..n -> PipelinePages \cup {<<>>}] : n \in 0..MaxPages}

\* the document types given to the pipeline
DocTypes == {"Circolare", "Risoluzione"}

\* what the stages of process_document return for a document under
\* Chunker(chunk_size = 10, overlap = 5)
StageResult(type, doc) ==
    LET text == ParseFullText(doc)
        t == extract_toc(type, DocumentIdOf(type), doc)
        raw == SegmentSections(DocumentIdOf(type), text)
        secs == FinishSections(raw, t)
    IN  [fullText |-> text, toc |-> t, rawSections |-> raw, sections |-> secs,
         chunks |-> AllChunks(secs, 1, 10, 5)]

\* process_document is called on any of these documents; the stages are
\* functions of the document, and frame holds what each of them returns
\* for it
InitAnyDocument ==
    /\ pc = "parse"
    /\ docType \in DocTypes
    /\ documentId = DocumentIdOf(docType)
    /\ pages \in AnyDocuments
    /\ chunk_size = 10 /\ overlap = 5
    /\ fullText = <<>>
    /\ toc = None
    /\ rawSections = <<>>
    /\ sections = <<>>
    /\ chunks = <<>>
    /\ rechunks = <<>>
    /\ workers = <<>>
    /\ results = <<>> /\ graph = {} /\ tx = None
    /\ frame = StageResult(docType, pages)

\* extract_toc is called on a document
InitToc ==
    /\ pc = "toc"
    /\ docType \in {"Circolare", "Risoluzione"}
    /\ documentId = DocumentIdOf(docType)
    /\ pages \in TocDocs \cup {Example20}
    /\ chunk_size = 10 /\ overlap = 5
    /\ Blank

\* extract_sections is called on a text and an optional TOC boundary
InitSections ==
    /\ pc = "sections"
    /\ docType = "Circolare"
    /\ documentId = DocumentIdOf(docType)
    /\ pages = <<>>
    /\ chunk_size = 10 /\ overlap = 5
    /\ \E blocks \in SeqsUpTo(Blocks, MaxBlocks) :
          \E at \in 1..(Len(blocks) + 1), g \in 0..MaxGapPages :
              fullText = TextOf(blocks, at, g)
    /\ toc \in TocInputs
    /\ rawSections = <<>>
    /\ sections = <<>>
    /\ chunks = <<>>
    /\ rechunks = <<>>
    /\ workers = <<>>
    /\ results = <<>> /\ graph = {} /\ tx = None
    /\ frame = <<>>

\* leading tokens of candidate heading lines
HeadingNumbers ==
    {<<>>, <<"1">>, <<"1", ".">>, <<"1", ".", "1">>, <<"1", ".", "1", ".", "1">>, <<"1", ".", "1", ".", "1", ".", "1">>, <<"1", "2", ".", "3">>, <<"2", ".">>, <<"1", ".", "1", ".">>}

\* what separates the leading token from the title
HeadingGaps == {<<>>, <<" ">>, <<" ", " ">>}

\* titles of candidate heading lines
HeadingTitles ==
    {<<>>, <<"A", "a">>, <<"a", "a">>, <<"P", "R", "E", "M", "E", "S", "S", "A">>, <<"P", "r", "e", "m", "e", "s", "s", "a", " ", "d", "e", "l", " ", "d", "o", "c", "u", "m", "e", "n", "t", "o">>,
     <<"C", "o", "n", "d", "i", "z", "i", "o", "n", "i", " ", "d", "i", " ", "a", "c", "c", "e", "s", "s", "o">>, <<"C", "O", "N", "D", "I", "Z", "I", "O", "N", "I">>, <<"D", "E", "F", "I", "N", "I", "Z", "I", "O", "N", "I">>, <<"C", "O", "N", "D", "I", "Z", "I", "O", "N", "I", " ", "D", "I", " ", "A", "C", "C", "E", "S", "S", "O">>,
     <<"O", "G", "G", "E", "T", "T", "O", ":", " ", "I", "v", "a">>, <<"P", "a", "r", "e", "r", "e", " ", " ", "d", "e", "l", "l", "'", "A", "g", "e", "n", "z", "i", "a">>}

\* candidate heading lines
HeadingLines ==
    {n \o g \o t : n \in HeadingNumbers, g \in HeadingGaps, t \in HeadingTitles}

\* extract_sections is called on a text of one candidate heading line and one
\* body line
InitHeading ==
    /\ pc = "sections"
    /\ docType = "Circolare"
    /\ documentId = DocumentIdOf(docType)
    /\ pages = <<>>
    /\ chunk_size = 10 /\ overlap = 5
    /\ \E line \in HeadingLines : fullText = line \o <<"\n", "c", "o", "r", "p", "o", "\n">>
    /\ toc = None
    /\ rawSections = <<>>
    /\ sections = <<>>
    /\ chunks = <<>>
    /\ rechunks = <<>>
    /\ workers = <<>>
    /\ results = <<>> /\ graph = {} /\ tx = None
    /\ frame = <<>>

\* the most lines of a text given to the segmenter line by line
MaxLines == 5

\* lines of a text: headings of levels 1 and 2, body lines with and without
\* surrounding blanks, a blank line
SegmentLines ==
    {PREMESSA,
     <<"1", ".", "1", " ", "B", "b">>,
     <<"c", "o", "r", "p", "o">>,
     <<" ", "a", ".", " ">>,
     <<" ">>}

\* extract_sections is called, without TOC, on a text of up to MaxLines of
\* these lines
InitSegment ==
    /\ pc = "sections"
    /\ docType = "Circolare"
    /\ documentId = DocumentIdOf(docType)
    /\ pages = <<>>
    /\ chunk_size = 10 /\ overlap = 5
    /\ \E lines \in SeqsUpTo(SegmentLines, MaxLines) : fullText = Join(lines, "\n")
    /\ toc = None
    /\ rawSections = <<>>
    /\ sections = <<>>
    /\ chunks = <<>>
    /\ rechunks = <<>>
    /\ workers = <<>>
    /\ results = <<>> /\ graph = {} /\ tx = None
    /\ frame = <<>>

\* the most sections of a list given to _build_hierarchy alone
MaxSections == 5

\* a heading line of the given level
HeadingOfLevel(level) ==
    IF level = 1 THEN PREMESSA
    ELSE IF level = 2 THEN <<"1", ".", "1", " ", "B", "b">>
    ELSE <<"1", ".", "1", ".", "1", " ", "C", "c">>

\* the sections the segmenter builds for headings of these levels, in order
SectionsOfLevels(docId, levels) ==
    [i \in 1..Len(levels) |->
        _create_section(docId, i - 1, HeadingOfLevel(levels[i]), <<<<"c", "o", "r", "p", "o">>>>,
                        _is_section_header(HeadingOfLevel(levels[i]))[2], 1,
                        _extract_level(HeadingOfLevel(levels[i])))]

\* _build_hierarchy is called on a renumbered list of up to MaxSections
\* sections of levels 1 to 3
InitHierarchy ==
    /\ pc = "hierarchy"
    /\ docType = "Circolare"
    /\ documentId = DocumentIdOf(docType)
    /\ pages = <<>>
    /\ fullText = <<>>
    /\ toc = None
    /\ rawSections = <<>>
    /\ \E levels \in SeqsUpTo(1..3, MaxSections) :
          sections = SectionsOfLevels(documentId, levels)
    /\ chunk_size = 10 /\ overlap = 5
    /\ chunks = <<>>
    /\ rechunks = <<>>
    /\ workers = <<>>
    /\ results = <<>> /\ graph = {} /\ tx = None
    /\ frame = <<>>

\* chunk_section is called on a section of the data model
InitChunk ==
    /\ pc = "chunks"
    /\ docType = "Circolare"
    /\ documentId = DocumentIdOf(docType)
    /\ pages = <<>>
    /\ fullText = <<>>
    /\ toc = None
    /\ rawSections = <<>>
    /\ \E body \in SeqsUpTo(BodyLines, MaxBodyLines) :
          sections = <<_create_section(documentId, 0, PREMESSA, body, "named", 1, 1)>>
    /\ \E c \in Configs : chunk_size = c[1] /\ overlap = c[2]
    /\ chunks = <<>>
    /\ rechunks = <<>>
    /\ workers = <<>>
    /\ results = <<>> /\ graph = {} /\ tx = None
    /\ frame = <<>>

\* the threads that share one SectionExtractor and one Chunker
Workers == {1, 2}

\* the most calls a worker makes, one after the other
MaxCalls == 2

\* the arguments the shared Chunker was constructed with
ConfiguredChunkSize == 10

ConfiguredOverlap == 5

\* the documents handed to the workers: identifier, fullText and TOC
WorkerDocs ==
    {[documentId |-> "CIR_1_2020",
      fullText   |-> <<"x", "\n">> \o PREMESSA \o <<"\n">> \o LONG \o <<" ">> \o MULTI \o <<"\n">>,
      toc        |-> None],
     [documentId |-> "RIS_1_2020",
      fullText   |-> <<"1", ".", "1", " ", "B", "b", "\n", "c", "o", "r", "t", "o", "\n">>
                       \o <<"1", ".", "1", ".", "1", " ", "C", "c", "\n">> \o MULTI \o <<" ">> \o LONG \o <<" ">> \o MID,
      toc        |-> None],
     [documentId |-> "CIR_2_2020",
      fullText   |-> PREMESSA \o <<" ", ".", " ", "2", "\n", "t", "i", "t", "o", "l", "o", "\n">>
                       \o Rep("\n", lines_per_page) \o PREMESSA \o <<"\n">> \o MULTI \o <<"\n">>,
      toc        |-> Some(TableOfContents("CIR_2_2020", <<>>, 2, FALSE, None, 0, "PREMESSA"))]}

\* the frame of a worker that is not inside a call
IdleFrame(calls) ==
    [at |-> "idle", calls |-> calls, document |-> None, lines |-> <<>>,
     line_num |-> 0, locals |-> SegmentStart, sections |-> <<>>,
     next_section |-> 1, all_chunks |-> <<>>]

\* one SectionExtractor and one Chunker(ConfiguredChunkSize,
\* ConfiguredOverlap) are shared by the workers; no call has started
InitWorkers ==
    /\ pc = "workers"
    /\ docType = "Circolare"
    /\ documentId = DocumentIdOf(docType)
    /\ pages = <<>>
    /\ fullText = <<>>
    /\ toc = None
    /\ rawSections = <<>>
    /\ sections = <<>>
    /\ chunks = <<>>
    /\ rechunks = <<>>
    /\ chunk_size = ConfiguredChunkSize /\ overlap = ConfiguredOverlap
    /\ workers = [w \in Workers |-> IdleFrame(0)]
    /\ results = <<>> /\ graph = {} /\ tx = None
    /\ frame = <<>>

\* chunk_section has entered its splitting path on a section of at least
\* MIN_SPLIT_CHARS characters: the locals before the loop over the sentences
\* (lines 46-54); `before` will hold the locals as they were before the
\* latest iteration
InitChunkLoop ==
    /\ pc = "split"
    /\ docType = "Circolare"
    /\ documentId = DocumentIdOf(docType)
    /\ pages = <<>>
    /\ fullText = <<>>
    /\ toc = None
    /\ rawSections = <<>>
    /\ \E body \in SeqsUpTo(BodyLines, MaxBodyLines) :
          /\ sections = <<_create_section(documentId, 0, PREMESSA, body, "named", 1, 1)>>
          /\ ~IsShortContent(sections[1].content)
    /\ \E c \in Configs : chunk_size = c[1] /\ overlap = c[2]
    /\ chunks = <<>>
    /\ rechunks = <<>>
    /\ workers = <<>>
    /\ results = <<>> /\ graph = {} /\ tx = None
    /\ frame = [sentences |-> _split_into_sentences(sections[1].content),
                next      |-> 1,
                locals    |-> [chunks |-> <<>>, chunk_index |-> 0,
                               current_chunk_text |-> <<>>],
                before    |-> None]

\* Stage 1: PDFParser.parse
Parse ==
    /\ pc = "parse"
    /\ fullText' = ParseFullText(pages)
    /\ pc' = "toc"
    /\ UNCHANGED <<results, graph, tx, frame, workers, docType, documentId, pages, toc, rawSections, sections,
                   chunks, chunk_size, overlap, rechunks>>

\* Stage 2: TOCExtractor.extract_toc
ExtractToc ==
    /\ pc = "toc"
    /\ toc' = extract_toc(docType, documentId, pages)
    /\ pc' = "sections"
    /\ UNCHANGED <<results, graph, tx, frame, workers, docType, documentId, pages, fullText, rawSections,
                   sections, chunks, chunk_size, overlap, rechunks>>

\* Stage 3: SectionExtractor.extract_sections; rawSections records the
\* list before TOC filtering
ExtractSections ==
    /\ pc = "sections"
    /\ rawSections' = SegmentSections(documentId, fullText)
    /\ sections' = extract_sections(documentId, fullText, toc)
    /\ pc' = "chunks"
    /\ UNCHANGED <<results, graph, tx, frame, workers, docType, documentId, pages, fullText, toc, chunks,
                   chunk_size, overlap, rechunks>>

\* Stage 4: Chunker.chunk_section on every section
CreateChunks ==
    /\ pc = "chunks"
    /\ chunks' = AllChunks(sections, 1, chunk_size, overlap)
    /\ pc' = "ingest"
    /\ UNCHANGED <<results, graph, tx, frame, workers, docType, documentId, pages, fullText, toc, rawSections,
                   sections, chunk_size, overlap, rechunks>>

\* chunk_section is called again on the content of every chunk it returned
\* for the section
ReChunk ==
    /\ pc = "ingest"
    /\ rechunks' = [i \in 1..Len(chunks) |->
                      chunk_section([sections[1] EXCEPT !.content = chunks[i].content],
                                    chunk_size, overlap)]
    /\ pc' = "rechunked"
    /\ UNCHANGED <<results, graph, tx, frame, workers, docType, documentId, pages, fullText, toc, rawSections,
                   sections, chunks, chunk_size, overlap>>

Next == Parse \/ ExtractToc \/ ExtractSections \/ CreateChunks

NextChunk == CreateChunks \/ ReChunk

\* process_document, stages 1 to 4
Spec == Init /\ [][Next]_vars

\* Stages 1 to 4 of process_document, each returning what the stage function
\* gives for the document
ParseStage ==
    /\ pc = "parse"
    /\ fullText' = frame.fullText
    /\ pc' = "toc"
    /\ UNCHANGED <<results, graph, tx, frame, workers, docType, documentId, pages, toc, rawSections, sections,
                   chunks, chunk_size, overlap, rechunks>>

TocStage ==
    /\ pc = "toc"
    /\ toc' = frame.toc
    /\ pc' = "sections"
    /\ UNCHANGED <<results, graph, tx, frame, workers, docType, documentId, pages, fullText, rawSections,
                   sections, chunks, chunk_size, overlap, rechunks>>

\* variant of stage 3 that does not return for a text without any heading
SectionsStage_NeedsHeading ==
    /\ pc = "sections"
    /\ frame.rawSections # <<>>
    /\ rawSections' = frame.rawSections
    /\ sections' = frame.sections
    /\ pc' = "chunks"
    /\ UNCHANGED <<results, graph, tx, frame, workers, docType, documentId, pages, fullText, toc, chunks,
                   chunk_size, overlap, rechunks>>

SectionsStage ==
    /\ pc = "sections"
    /\ rawSections' = frame.rawSections
    /\ sections' = frame.sections
    /\ pc' = "chunks"
    /\ UNCHANGED <<results, graph, tx, frame, workers, docType, documentId, pages, fullText, toc, chunks,
                   chunk_size, overlap, rechunks>>

ChunksStage ==
    /\ pc = "chunks"
    /\ chunks' = frame.chunks
    /\ pc' = "ingest"
    /\ UNCHANGED <<results, graph, tx, frame, workers, docType, documentId, pages, fullText, toc, rawSections,
                   sections, chunk_size, overlap, rechunks>>

NextStage == ParseStage \/ TocStage \/ SectionsStage \/ ChunksStage

\* process_document on any document; a started call executes its stages one
\* after the other, so a stage that can run does run
SpecAnyDocument == InitAnyDocument /\ [][NextStage]_vars /\ WF_vars(NextStage)

\* what a worker's step leaves alone besides the attributes of the Chunker
Pipeline == <<pc, docType, documentId, pages, fullText, toc, rawSections,
              sections, chunks, rechunks, frame>>

\* a worker calls extract_sections on a document: the locals of lines 50-58
WorkerCall(w) ==
    /\ workers[w].at \in {"idle", "returned"}
    /\ workers[w].calls < MaxCalls
    /\ \E d \in WorkerDocs :
          workers' = [workers EXCEPT ![w] =
                        [at |-> "lines", calls |-> workers[w].calls + 1,
                         document |-> Some(d), lines |-> Split(d.fullText, "\n"),
                         line_num |-> 0, locals |-> SegmentStart,
                         sections |-> <<>>, next_section |-> 1,
                         all_chunks |-> <<>>]]
    /\ UNCHANGED <<results, graph, tx, Pipeline, chunk_size, overlap>>

\* one iteration of the loop over the lines, on the worker's own locals
WorkerLine(w) ==
    /\ workers[w].at = "lines"
    /\ workers[w].line_num < Len(workers[w].lines)
    /\ workers' = [workers EXCEPT
                     ![w].locals = SegmentLoopBody(workers[w].document[1].documentId, @,
                                                   workers[w].line_num,
                                                   workers[w].lines[workers[w].line_num + 1]),
                     ![w].line_num = @ + 1]
    /\ UNCHANGED <<results, graph, tx, Pipeline, chunk_size, overlap>>

\* after the loop: the last section, the TOC filter, the renumbering and the
\* hierarchy (lines 100-128); extract_sections returns
WorkerSections(w) ==
    /\ workers[w].at = "lines"
    /\ workers[w].line_num = Len(workers[w].lines)
    /\ LET st  == workers[w].locals
           d   == workers[w].document[1]
           raw == IF HasOpenContent(st)
                  THEN Append(st.sections, OpenSection(d.documentId, st))
                  ELSE st.sections
       IN  workers' = [workers EXCEPT ![w].sections = FinishSections(raw, d.toc),
                                      ![w].at = "chunks"]
    /\ UNCHANGED <<results, graph, tx, Pipeline, chunk_size, overlap>>

\* variant of chunk_section that halves self.chunk_size after a section
\* that needed more than one chunk
WorkerChunk_Adaptive(w) ==
    /\ workers[w].at = "chunks"
    /\ workers[w].next_section <= Len(workers[w].sections)
    /\ LET made == chunk_section(workers[w].sections[workers[w].next_section],
                                 chunk_size, overlap)
       IN  /\ workers' = [workers EXCEPT ![w].all_chunks = @ \o made,
                                         ![w].next_section = @ + 1]
           /\ chunk_size' = IF Len(made) > 1 THEN chunk_size \div 2 ELSE chunk_size
    /\ UNCHANGED <<results, graph, tx, Pipeline, overlap>>

\* the worker calls chunk_section of the shared Chunker on its next section
WorkerChunk(w) ==
    /\ workers[w].at = "chunks"
    /\ workers[w].next_section <= Len(workers[w].sections)
    /\ workers' = [workers EXCEPT
                     ![w].all_chunks = @ \o chunk_section(workers[w].sections[workers[w].next_section],
                                                          chunk_size, overlap),
                     ![w].next_section = @ + 1]
    /\ UNCHANGED <<results, graph, tx, Pipeline, chunk_size, overlap>>

\* every section is chunked: the worker has the results of its document
WorkerReturn(w) ==
    /\ workers[w].at = "chunks"
    /\ workers[w].next_section > Len(workers[w].sections)
    /\ workers' = [workers EXCEPT ![w].at = "returned"]
    /\ UNCHANGED <<results, graph, tx, Pipeline, chunk_size, overlap>>

NextWorkers ==
    \E w \in Workers :
        \/ WorkerCall(w)
        \/ WorkerLine(w)
        \/ WorkerSections(w)
        \/ WorkerChunk(w)
        \/ WorkerReturn(w)

\* workers that call the shared SectionExtractor and Chunker at any time, in
\* any interleaving of their steps
SpecWorkers == InitWorkers /\ [][NextWorkers]_vars

\* extract_sections alone, on texts given line by line
SpecSegment == InitSegment /\ [][ExtractSections]_vars

\* SectionExtractor._build_hierarchy on the list, in place
BuildHierarchy ==
    /\ pc = "hierarchy"
    /\ sections' = _build_hierarchy(sections)
    /\ pc' = "linked"
    /\ UNCHANGED <<results, graph, tx, frame, workers, docType, documentId, pages, fullText, toc,
                   rawSections, chunks, chunk_size, overlap, rechunks>>

\* _build_hierarchy alone
SpecHierarchy == InitHierarchy /\ [][BuildHierarchy]_vars

\* one iteration of `for sentence in sentences` (lines 56-74)
ChunkSentence ==
    /\ pc = "split"
    /\ frame.next <= Len(frame.sentences)
    /\ frame' = [frame EXCEPT
                   !.locals = ChunkLoopBody(sections[1], @, frame.sentences[frame.next],
                                            chunk_size * chars_per_token,
                                            overlap * chars_per_token),
                   !.before = Some(frame.locals),
                   !.next = @ + 1]
    /\ UNCHANGED <<results, graph, tx, pc, docType, documentId, pages, fullText, toc, rawSections,
                   sections, chunks, chunk_size, overlap, rechunks, workers>>

\* after the loop: the final chunk (lines 76-86); chunk_section returns
ChunkFinal ==
    /\ pc = "split"
    /\ frame.next > Len(frame.sentences)
    /\ chunks' = IF Len(Strip(frame.locals.current_chunk_text)) > 0
                 THEN Append(frame.locals.chunks,
                             _create_chunk(sections[1], frame.locals.chunk_index,
                                           Strip(frame.locals.current_chunk_text),
                                           sections[1].pageNumber))
                 ELSE frame.locals.chunks
    /\ pc' = "ingest"
    /\ UNCHANGED <<results, graph, tx, frame, workers, docType, documentId, pages, fullText, toc,
                   rawSections, sections, chunk_size, overlap, rechunks>>

NextChunkLoop == ChunkSentence \/ ChunkFinal

\* the splitting path of chunk_section, sentence by sentence
SpecChunkLoop == InitChunkLoop /\ [][NextChunkLoop]_vars

\* extract_toc alone
SpecToc == InitToc /\ [][ExtractToc]_vars

\* extract_sections alone
SpecSections == InitSections /\ [][ExtractSections]_vars

\* chunk_section alone
SpecChunk == InitChunk /\ [][NextChunk]_vars

\* extract_sections alone, on one candidate heading line
SpecHeading == InitHeading /\ [][ExtractSections]_vars

(***************************************************************************)
(* Properties                                                              *)
(***************************************************************************)
\* the indices of a sequence
Idx(q) == 1..Len(q)

\* is the section with this sectionId in the list
HasSection(secs, id) == \E j \in Idx(secs) : secs[j].sectionId = id

\* C1: after extract_sections, every section with a parentSectionId has its
\* parent in the returned list, one level up and earlier in order.
C1_ParentInListOneLevelUp ==
    pc = "chunks" =>
        \A i \in Idx(sections) :
            sections[i].parentSectionId # None =>
                \E j \in Idx(sections) :
                    /\ sections[j].sectionId = sections[i].parentSectionId
                    /\ sections[j].level = sections[i].level - 1
                    /\ sections[j].order < sections[i].order

\* C1 witness: the TOC filter removed a section and a retained section has
\* a parent.
C1_Witness ==
    /\ pc = "chunks"
    /\ Len(sections) < Len(rawSections)
    /\ \E i \in Idx(sections) : sections[i].parentSectionId # None

\* C2: the order values of the returned sections are 0..N-1 in list
\* position, and the retained sections keep the relative order of emission.
C2_OrderDenseAndStable ==
    pc = "chunks" =>
        /\ \A i \in Idx(sections) :
              /\ sections[i].order = i - 1
              /\ HasSection(rawSections, sections[i].sectionId)
        /\ \A i, j \in Idx(sections) :
              i < j =>
                \E a, b \in Idx(rawSections) :
                    /\ a < b
                    /\ rawSections[a].sectionId = sections[i].sectionId
                    /\ rawSections[b].sectionId = sections[j].sectionId

\* C2 witness: a section was removed in front of two retained ones, so the
\* renumbering changed their order values.
C2_Witness ==
    /\ pc = "chunks"
    /\ Len(sections) >= 2
    /\ ~HasSection(sections, rawSections[1].sectionId)

\* C3: every chunk of a processed document carries the sectionId of a
\* section of that document's final section list.
C3_ChunkSectionInOutput ==
    \A k \in Idx(chunks) :
        /\ chunks[k].documentId = documentId
        /\ \E j \in Idx(sections) :
              /\ sections[j].sectionId = chunks[k].sectionId
              /\ sections[j].documentId = documentId

\* C3 witness: the chunking stage has run on a document from which the TOC
\* filter removed a section in front of a retained one.
C3_Witness ==
    /\ pc = "ingest"
    /\ Len(chunks) > 0
    /\ Len(sections) > 0
    /\ ~HasSection(sections, rawSections[1].sectionId)

\* C4: every chunk returned by chunk_section has non-empty content without
\* leading or trailing whitespace, also for a section with empty content.
C4_ChunksNonEmptyTrimmed ==
    \A k \in Idx(chunks) :
        /\ Len(chunks[k].content) > 0
        /\ chunks[k].content = Strip(chunks[k].content)

\* C5: a section with content shorter than 100 characters yields exactly one
\* chunk, with index 0 and the whole content; chunking that chunk's content
\* again yields the same single chunk.
C5_ShortContentSingleChunk ==
    (pc \in {"ingest", "rechunked"} /\ Len(sections[1].content) < 100) =>
        /\ Len(chunks) = 1
        /\ chunks[1].chunkIndex = 0
        /\ chunks[1].content = sections[1].content
        /\ pc = "rechunked" => rechunks = <<chunks>>

\* C5 witness: a content of 99 characters, longer than the chunk budget,
\* has been chunked and chunked again.
C5_Witness ==
    /\ pc = "rechunked"
    /\ Len(sections[1].content) = 99
    /\ chunk_size * chars_per_token < 99

\* the elements of a sequence
Range(q) == {q[i] : i \in DOMAIN q}

\* does chunk content cur start with the last n characters of prev, a space
\* and then the sentence s
StartsWithTailThenSentence(cur, prev, n, s) ==
    /\ n + 1 + Len(s) <= Len(cur)
    /\ \A t \in 1..n : cur[t] = prev[Len(prev) - n + t]
    /\ cur[n + 1] = " "
    /\ At(cur, n + 2, s)

C7_ChunksWithinBudget ==
    (/\ pc = "ingest"
     /\ Len(sections[1].content) >= 100
     /\ overlap < chunk_size
     /\ \A s \in Range(_split_into_sentences(sections[1].content)) :
           Len(s) <= chunk_size * 4)
    => \A k \in Idx(chunks) : Len(chunks[k].content) <= chunk_size * 4

\* C8: every TableOfContents returned by extract_toc has
\* 1 <= startPage <= endPage <= page count, so toc_pages >= 1.
C8_TocPageRange ==
    (pc = "sections" /\ toc # None) =>
        /\ 1 <= toc[1].startPage
        /\ toc[1].startPage <= toc[1].endPage
        /\ toc[1].endPage <= Len(pages)
        /\ TocPages(toc) >= 1

\* C9: a section is removed by TOC filtering exactly when a TOC was supplied,
\* its pageNumber lies in [startPage, endPage] and its content has fewer
\* than 100 characters.
C9_FilteredIffInRangeAndShort ==
    pc = "chunks" =>
        \A a \in Idx(rawSections) :
            ~HasSection(sections, rawSections[a].sectionId)
            <=> /\ toc # None
                /\ toc[1].startPage <= rawSections[a].pageNumber
                /\ rawSections[a].pageNumber <= toc[1].endPage
                /\ Len(rawSections[a].content) < 100

\* C9 witness: with a TOC supplied, one section in the page range was
\* removed (short content) and one in the page range was retained (100
\* characters or more).
C9_Witness ==
    /\ pc = "chunks"
    /\ toc # None
    /\ \E a, b \in Idx(rawSections) :
          /\ ~HasSection(sections, rawSections[a].sectionId)
          /\ HasSection(sections, rawSections[b].sectionId)
          /\ toc[1].startPage <= rawSections[b].pageNumber
          /\ rawSections[b].pageNumber <= toc[1].endPage
          /\ Len(rawSections[b].content) >= 100

\* the candidate page a strategy validated on this document: the number
\* captured on page 2, at most the page count, with the marker near the top
\* of that page; <<c, method>>, or None when no strategy validates
ValidatedCandidate ==
    LET pa == PremessaSearch(pages[2])
        fs == FirstSectionSearch(pages[2])
    IN  IF /\ pa # None
           /\ pa[1] <= Len(pages)
           /\ Contains(Prefix(Upper(PageAt(pages, pa[1] - 1)), 500), PREMESSA)
        THEN <<pa[1], "PREMESSA">>
        ELSE IF /\ fs # None
                /\ fs[1] <= Len(pages)
                /\ Contains(Prefix(PageAt(pages, fs[1] - 1), 200), ONE_DOT_ONE)
             THEN <<fs[1], "FIRST_SECTION">>
             ELSE None

C11_StrategyPriority ==
    (pc = "sections" /\ docType = "Circolare" /\ Len(pages) >= 2) =>
        /\ PremessaBoundary(pages) # None =>
              /\ toc # None
              /\ toc[1].detectionMethod = "PREMESSA"
              /\ toc[1].endPage = PremessaBoundary(pages)[1]
        /\ (PremessaBoundary(pages) = None /\ FirstSectionBoundary(pages) # None) =>
              /\ toc # None
              /\ toc[1].detectionMethod = "FIRST_SECTION"
              /\ toc[1].endPage = FirstSectionBoundary(pages)[1]
        /\ (PremessaBoundary(pages) = None /\ FirstSectionBoundary(pages) = None) =>
              toc = None

\* C11 witness: both strategies validate, on different pages, and the result
\* is the PREMESSA strategy's.
C11_Witness ==
    /\ pc = "sections" /\ docType = "Circolare" /\ Len(pages) >= 2
    /\ PremessaBoundary(pages) # None
    /\ FirstSectionBoundary(pages) # None
    /\ PremessaBoundary(pages) # FirstSectionBoundary(pages)
    /\ toc # None
    /\ toc[1].detectionMethod = "PREMESSA"

\* does text show the marker w within its first `window` characters; upper:
\* the comparison is made on text.upper()
MarkerNearTop(text, w, window, upper) ==
    Contains(Prefix(IF upper THEN Upper(text) ELSE text, window), w)

\* is c the number of a page of the document whose top shows the marker
MarkerOnCandidatePage(c, w, window, upper) ==
    /\ c \in 1..Len(pages)
    /\ MarkerNearTop(pages[c], w, window, upper)

\* C12: extract_toc returns a TOC exactly when the type is Circolare, the
\* document has at least 2 pages, and a candidate page number captured on
\* page 2 is at most the page count with the marker (PREMESSA in the first
\* 500 characters, or 1.1 in the first 200) near the top of that page.
C12_TocOnlyIfValidated ==
    pc = "sections" =>
        (toc # None <=>
            /\ docType = "Circolare"
            /\ Len(pages) >= 2
            /\ \/ /\ PremessaSearch(pages[2]) # None
                  /\ MarkerOnCandidatePage(PremessaSearch(pages[2])[1],
                                           PREMESSA, 500, TRUE)
               \/ /\ FirstSectionSearch(pages[2]) # None
                  /\ MarkerOnCandidatePage(FirstSectionSearch(pages[2])[1],
                                           ONE_DOT_ONE, 200, FALSE))

\* the first line of a text
FirstLine(text) == Split(text, "\n")[1]

\* the leading token of a line: its characters before the first whitespace
LeadingToken(line) == SubSeq(line, 1, RunEndNot(line, 1, Space) - 1)

\* the number of maximal digit runs of a token: its dot-separated numeric
\* groups
NumericGroups(tok) ==
    Cardinality({i \in 1..Len(tok) :
                    tok[i] \in Digit /\ (i = 1 \/ tok[i - 1] \notin Digit)})

\* does the line match a named-heading rule, a numbered-heading rule
IsNamedLine(line) == \E k \in 1..Len(named_sections) : MatchesNamed(line, k)
IsNumberedLine(line) == \E k \in 1..4 : MatchesNumbered(line, k)

StagesReturned ==
    /\ pc = "ingest"
    /\ toc = None \/ Len(toc) = 1
    /\ DOMAIN sections = 1..Len(sections)
    /\ DOMAIN chunks = 1..Len(chunks)

\* C14: for every input, including an empty document, a document without a
\* recognizable heading and a document without a TOC, TOC detection,
\* segmentation, hierarchy building and chunking each run to completion and
\* return a collection or None.
C14_StagesRunToCompletion == <>StagesReturned

\* C14 witness: the stages have returned for a document without pages, with
\* no TOC, no section and no chunk.
C14_Witness ==
    /\ StagesReturned
    /\ pages = <<>>
    /\ toc = None
    /\ sections = <<>>
    /\ chunks = <<>>

\* C15: the sections and chunks a worker obtains for a document are those of
\* extract_sections and chunk_section on that document alone under the
\* configuration the Chunker was constructed with, whatever the same
\* instances were called on earlier or are being called on by the other
\* worker; the attributes of the shared Chunker are never changed
C15_ResultsDependOnOwnDocument ==
    /\ chunk_size = ConfiguredChunkSize
    /\ overlap = ConfiguredOverlap
    /\ \A w \in DOMAIN workers :
          workers[w].at = "returned" =>
              \A d \in {workers[w].document[1]} :
                  \A alone \in {extract_sections(d.documentId, d.fullText, d.toc)} :
                      /\ workers[w].sections = alone
                      /\ workers[w].all_chunks =
                            AllChunks(alone, 1, ConfiguredChunkSize, ConfiguredOverlap)

\* a worker returns from its second call, on a document with several chunks,
\* while the other worker is inside a call on a different document
C15_Witness ==
    \E w \in DOMAIN workers, v \in DOMAIN workers :
        /\ w # v
        /\ workers[w].at = "returned"
        /\ workers[w].calls = 2
        /\ Len(workers[w].all_chunks) > 1
        /\ workers[v].at \in {"lines", "chunks"}
        /\ workers[v].calls >= 1
        /\ workers[v].document # workers[w].document

\* is the line classified as a heading by the loop of extract_sections
IsHeadingLine(line) ==
    Len(Strip(line)) > 0 /\ _is_section_header(Strip(line))[1]

\* the positions of the heading lines among the lines
HeadingPositions(lines) == {i \in Idx(lines) : IsHeadingLine(lines[i])}

\* the position of the first heading line after position h, or one past the
\* last line
NextHeading(lines, h) ==
    IF \E j \in HeadingPositions(lines) : j > h
    THEN CHOOSE j \in HeadingPositions(lines) :
             j > h /\ \A m \in HeadingPositions(lines) : m > h => j <= m
    ELSE Len(lines) + 1

\* how many of the positions in S are at or before position h
RankIn(S, h) == Cardinality({j \in S : j <= h})

\* C16: before TOC filtering the segmenter has emitted exactly one section
\* per heading-classified line, in line order, also for a heading that is
\* directly followed by another heading or by the end of the input.
C16_OneSectionPerHeading ==
    pc = "chunks" =>
        \A lines \in {Split(fullText, "\n")} :
            \A H \in {HeadingPositions(lines)} :
                /\ Len(rawSections) = Cardinality(H)
                /\ \A h \in H :
                      rawSections[RankIn(H, h)].title = Prefix(Strip(lines[h]), TITLE_LIMIT)

\* is the line one the loop does not skip
NonBlank(line) == Len(Strip(line)) > 0

\* the non-blank lines between the heading at position h and the next heading
BodyOf(lines, h) ==
    SelectSeq(SubSeq(lines, h + 1, NextHeading(lines, h) - 1), NonBlank)

\* C17: before TOC filtering, the non-blank non-heading lines that follow a
\* heading up to the next heading are, in their order, the content of
\* exactly one section, the one opened by that heading; the sections are
\* those of the headings that have such lines, in line order, so a line
\* before the first heading is in no section.
C17_BodyLinesInNearestSection ==
    pc = "chunks" =>
        \A lines \in {Split(fullText, "\n")} :
            \A B \in {{h \in HeadingPositions(lines) : BodyOf(lines, h) # <<>>}} :
                /\ Len(rawSections) = Cardinality(B)
                /\ \A h \in B :
                      /\ rawSections[RankIn(B, h)].title = Prefix(Strip(lines[h]), TITLE_LIMIT)
                      /\ rawSections[RankIn(B, h)].content = Strip(Join(BodyOf(lines, h), "\n"))

\* a text whose first line is a body line before any heading, followed by
\* two headings with a body line each: two sections were emitted
C17_Witness ==
    /\ pc = "chunks"
    /\ Len(rawSections) = 2
    /\ \E lines \in {Split(fullText, "\n")} :
          /\ Len(lines) = 5
          /\ NonBlank(lines[1]) /\ ~IsHeadingLine(lines[1])
          /\ IsHeadingLine(lines[2]) /\ IsHeadingLine(lines[4])
          /\ BodyOf(lines, 2) # <<>> /\ BodyOf(lines, 4) # <<>>

\* the reference rule: the parent of section i at level L is the most recent
\* earlier section of level L - 1, provided every section strictly between
\* has a level >= L; otherwise section i has no parent
ReferenceParent(secs, i) ==
    LET L == secs[i].level
        earlier == {q \in 1..(i - 1) : secs[q].level = L - 1}
        p == CHOOSE q \in earlier : \A r \in earlier : r <= q
    IN  IF earlier # {} /\ \A m \in (p + 1)..(i - 1) : secs[m].level >= L
        THEN secs[p].sectionId
        ELSE None

\* C18: _build_hierarchy assigns every section the parent of the reference
\* rule; a level-3 section that follows a level-1 section with no level-2
\* section in between is a root.
C18_HierarchyIsReferenceRule ==
    pc = "linked" =>
        \A i \in Idx(sections) :
            sections[i].parentSectionId = ReferenceParent(sections, i)

\* levels 2, 3, 1, 3: the last section is a root although a level-2 section
\* precedes it, and the second section has the first as its parent
C18_Witness ==
    /\ pc = "linked"
    /\ Len(sections) = 4
    /\ sections[1].level = 2 /\ sections[2].level = 3
    /\ sections[3].level = 1 /\ sections[4].level = 3
    /\ sections[2].parentSectionId = sections[1].sectionId
    /\ sections[4].parentSectionId = None

\* the latest iteration of the sentence loop: the sentence it handled, the
\* buffer before and after it, and whether it closed a chunk
LoopSentence == frame.sentences[frame.next - 1]
BufferBefore == frame.before[1].current_chunk_text
BufferAfter == frame.locals.current_chunk_text
ClosedChunk == Len(frame.locals.chunks) = Len(frame.before[1].chunks) + 1

\* the overlap fragment the iteration seeded the next buffer with: what
\* precedes the blank and the sentence
OverlapFragment == SubSeq(BufferAfter, 1, Len(BufferAfter) - Len(LoopSentence) - 1)

\* is t a suffix of s
IsSuffix(t, s) == Len(t) <= Len(s) /\ t = SubSeq(s, Len(s) - Len(t) + 1, Len(s))

\* C19: for every overlap >= 0, the overlap fragment seeded into the next
\* chunk is a suffix of the just-closed buffer of at most overlap * 4
\* characters; when the buffer is longer than that, it is the trailing slice
\* of that length, cut after its first sentence boundary when it has one.
C19_OverlapFragmentBounded ==
    (pc = "split" /\ frame.before # None /\ ClosedChunk) =>
        /\ IsSuffix(OverlapFragment, BufferBefore)
        /\ Len(OverlapFragment) <= overlap * chars_per_token
        /\ Len(BufferBefore) > overlap * chars_per_token =>
              \A slice \in {SubSeq(BufferBefore,
                                   Len(BufferBefore) - overlap * chars_per_token + 1,
                                   Len(BufferBefore))} :
                  OverlapFragment = IF BoundaryEnd(slice) > 0
                                    THEN SubSeq(slice, BoundaryEnd(slice), Len(slice))
                                    ELSE slice

\* C20: in the splitting path, the iteration for sentence s closes a chunk
\* exactly when the buffer is non-empty and len(buffer) + len(s) exceeds
\* chunk_size * 4, the closed chunk being the stripped buffer; otherwise s is
\* appended to the buffer. The buffer always ends with the whole sentence,
\* and no closed chunk is empty.
C20_CloseIffOverBudget ==
    (pc = "split" /\ frame.before # None) =>
        /\ ClosedChunk <=>
              (/\ Len(BufferBefore) > 0
               /\ Len(BufferBefore) + Len(LoopSentence) > chunk_size * chars_per_token)
        /\ ClosedChunk =>
              frame.locals.chunks[Len(frame.locals.chunks)].content = Strip(BufferBefore)
        /\ ~ClosedChunk =>
              /\ frame.locals.chunks = frame.before[1].chunks
              /\ BufferAfter = BufferBefore \o <<" ">> \o LoopSentence
        /\ IsSuffix(<<" ">> \o LoopSentence, BufferAfter)
        /\ \A k \in Idx(frame.locals.chunks) : Len(frame.locals.chunks[k].content) > 0

\* the first sentence is longer than the budget and was appended to the
\* empty buffer; no chunk has been closed
C20_Witness ==
    /\ pc = "split"
    /\ frame.next = 2
    /\ Len(LoopSentence) > chunk_size * chars_per_token
    /\ BufferBefore = <<>>
    /\ frame.locals.chunks = <<>>

\* the index of the first chunk from chunk k on that contains the text s, or
\* one past the last chunk
FirstChunkWith(s, k) ==
    IF \E j \in k..Len(chunks) : Contains(chunks[j].content, s)
    THEN CHOOSE j \in k..Len(chunks) :
             /\ Contains(chunks[j].content, s)
             /\ \A m \in k..(j - 1) : ~Contains(chunks[m].content, s)
    ELSE Len(chunks) + 1

\* the chunk in which sentence i is found when the sentences are looked up
\* one after the other, each from the chunk of its predecessor on
RECURSIVE ChunkOfSentence(_, _)
ChunkOfSentence(sentences, i) ==
    IF i = 0 THEN 1
    ELSE FirstChunkWith(sentences[i], ChunkOfSentence(sentences, i - 1))

\* C21: in the splitting path, every sentence of the content is whole in at
\* least one chunk, the sentences appear in the chunks in their original
\* order, and the last sentence is in the last chunk.
C21_SentencesKeptInOrder ==
    (pc = "ingest" /\ ~IsShortContent(sections[1].content)) =>
        \A sentences \in {_split_into_sentences(sections[1].content)} :
            /\ ChunkOfSentence(sentences, Len(sentences)) <= Len(chunks)
            /\ Len(chunks) >= 1
            /\ Contains(chunks[Len(chunks)].content, sentences[Len(sentences)])

\* C21 witness: a content of several different sentences was split into
\* three or more chunks.
C21_Witness ==
    /\ pc = "ingest"
    /\ ~IsShortContent(sections[1].content)
    /\ Len(chunks) >= 3
    /\ Cardinality(Range(_split_into_sentences(sections[1].content))) >= 3

\* the length n of the capital run of a line that consists of an integer
\* without dot, whitespace and n capital letters; -1 for any other line
CapsRunLength(line) ==
    LET d == RunEnd(line, 1, Digit)
        w == RunEnd(line, d, Space)
        e == RunEnd(line, w, UpperAZ)
    IN  IF d > 1 /\ w > d /\ e > w /\ e = Len(line) + 1 THEN e - w ELSE -1

\* C22: a line made of a bare integer, whitespace and a run of n capital
\* letters is classified as a numbered heading of level 1 exactly when
\* n >= 10; a run of exactly 10 capitals is a heading.
C22_CapsRunOfTenIsHeading ==
    pc = "chunks" =>
        \A line \in {FirstLine(fullText)} :
            CapsRunLength(line) >= 1 =>
                ((/\ Len(rawSections) = 1
                  /\ rawSections[1].sectionType = "numbered"
                  /\ rawSections[1].level = 1)
                 <=> CapsRunLength(line) >= CAPS_RUN_MIN)

\* the leading dotted numeral of a line: its longest prefix of digits and
\* single dots that begins and ends with a digit
DottedNumeral(line) ==
    LET ends == {n \in Idx(line) :
                    /\ \A j \in 1..n : line[j] \in Digit \cup {"."}
                    /\ line[1] \in Digit /\ line[n] \in Digit
                    /\ \A j \in 1..(n - 1) : ~(line[j] = "." /\ line[j + 1] = ".")}
    IN  IF ends = {} THEN <<>>
        ELSE SubSeq(line, 1, CHOOSE n \in ends : \A m \in ends : m <= n)

\* the canonical upper-case name of named-heading rule k
CanonicalName(k) ==
    IF Len(named_sections[k].tail) = 0 THEN named_sections[k].head
    ELSE named_sections[k].head \o <<" ">> \o named_sections[k].tail

\* C23: the section number of a numbered heading is its leading dotted
\* numeral; the section number of a named heading is the canonical upper-case
\* name of a rule the line matches, whatever the case of the line and
\* whatever follows the name on the line.
C23_SectionNumberOfHeading ==
    (pc = "chunks" /\ Len(rawSections) = 1) =>
        \A line \in {Strip(FirstLine(fullText))} :
            /\ rawSections[1].sectionType = "numbered" =>
                  rawSections[1].sectionNumber = DottedNumeral(line)
            /\ rawSections[1].sectionType = "named" =>
                  \E k \in Idx(named_sections) :
                      /\ MatchesNamed(line, k)
                      /\ rawSections[1].sectionNumber = CanonicalName(k)

\* the characters of a document identifier
DocumentIdText(docId) ==
    CASE docId = "CIR_1_2020" -> <<"C", "I", "R", "_", "1", "_", "2", "0", "2", "0">>
      [] docId = "CIR_2_2020" -> <<"C", "I", "R", "_", "2", "_", "2", "0", "2", "0">>
      [] docId = "RIS_1_2020" -> <<"R", "I", "S", "_", "1", "_", "2", "0", "2", "0">>

\* the string f"{documentId}_SEC_{order}" of a section identifier
SectionIdText(id) ==
    DocumentIdText(id[1]) \o <<"_", "S", "E", "C", "_">> \o IntToStr(id[3])

\* the string f"{sectionId}_CHK_{chunk_index}" of a chunk identifier
ChunkIdText(id) ==
    SectionIdText(id[1]) \o <<"_", "C", "H", "K", "_">> \o IntToStr(id[3])

\* C24: the chunks of each section carry chunkIndex 0, 1, ..., m-1 in list
\* order, restarting at 0 for each section; each chunkId is the section's
\* sectionId combined with that index; each chunk has its section's
\* pageNumber; the chunkIds of a document are pairwise distinct.
C24_ChunkIndexAndIdPerSection ==
    pc = "ingest" =>
        /\ \A k \in Idx(chunks) :
              /\ chunks[k].chunkIndex =
                    Cardinality({j \in 1..(k - 1) : chunks[j].sectionId = chunks[k].sectionId})
              /\ chunks[k].chunkId = <<chunks[k].sectionId, "CHK", chunks[k].chunkIndex>>
              /\ \E i \in Idx(sections) :
                    /\ sections[i].sectionId = chunks[k].sectionId
                    /\ sections[i].pageNumber = chunks[k].pageNumber
              /\ k > 1 =>
                    \/ chunks[k].sectionId = chunks[k - 1].sectionId
                    \/ chunks[k].chunkIndex = 0
        /\ \A j, k \in Idx(chunks) :
              j # k => ChunkIdText(chunks[j].chunkId) # ChunkIdText(chunks[k].chunkId)

\* C24 witness: a document with two sections of several chunks each, on
\* different pages.
C24_Witness ==
    /\ pc = "ingest"
    /\ \E j, k \in Idx(chunks) :
          /\ chunks[j].sectionId # chunks[k].sectionId
          /\ chunks[j].chunkIndex >= 1
          /\ chunks[k].chunkIndex >= 1
          /\ chunks[j].pageNumber # chunks[k].pageNumber

\* C25: the sectionIds of the returned sections are pairwise distinct; each
\* is the identifier built from the document id and the emission counter
\* before filtering, unchanged by the renumbering of order, so its suffix is
\* at least the section's order.
C25_SectionIdsDistinct ==
    pc = "chunks" =>
        /\ \A i, j \in Idx(sections) :
              i # j => SectionIdText(sections[i].sectionId) # SectionIdText(sections[j].sectionId)
        /\ \A r \in Idx(rawSections) :
              rawSections[r].sectionId = SectionId(documentId, r - 1)
        /\ \A i \in Idx(sections) :
              /\ \E r \in Idx(rawSections) :
                    /\ rawSections[r].sectionId = sections[i].sectionId
                    /\ rawSections[r].title = sections[i].title
                    /\ rawSections[r].content = sections[i].content
              /\ sections[i].sectionId[3] >= sections[i].order

\* C25 witness: the filter removed the first emitted section and two later
\* ones were retained, so their sectionId suffixes exceed their order.
C25_Witness ==
    /\ pc = "chunks"
    /\ Len(sections) >= 2
    /\ Len(rawSections) > Len(sections)
    /\ \A i \in Idx(sections) : sections[i].sectionId[3] > sections[i].order

\* C26: every section returned by extract_sections has non-empty content,
\* and every chunk the pipeline makes of these sections is non-empty.
C26_PipelineSectionsAndChunksNonEmpty ==
    /\ \A i \in Idx(sections) : Len(sections[i].content) > 0
    /\ \A r \in Idx(rawSections) : Len(rawSections[r].content) > 0
    /\ \A k \in Idx(chunks) : Len(chunks[k].content) > 0

\* C26 witness: the text has a heading line without body lines, for which
\* no section was emitted, and the chunks of the returned sections exist.
C26_Witness ==
    /\ pc = "ingest"
    /\ Len(chunks) > 0
    /\ Len(rawSections) < Cardinality(HeadingPositions(Split(fullText, "\n")))

\* the least position of H after position h, or n + 1
NextIn(H, h, n) ==
    IF \E j \in H : j > h
    THEN CHOOSE j \in H : j > h /\ \A m \in H : m > h => j <= m
    ELSE n + 1

\* the zero-based index of the line at which the section of the heading at
\* position h is closed, H being the positions of the heading lines: the
\* next heading line, or the last line of the text
ClosingLine(lines, H, h) ==
    IF NextIn(H, h, Len(lines)) <= Len(lines) THEN NextIn(H, h, Len(lines)) - 1
    ELSE Len(lines) - 1

\* has the heading at position h a non-blank line before the next heading
HasBody(lines, H, h) ==
    \E j \in (h + 1)..(NextIn(H, h, Len(lines)) - 1) : NonBlank(lines[j])

\* C27: the pageNumber of a section is 1 + floor(i / 50) for the zero-based
\* index i of the line at which the section was closed; it is never smaller
\* than the estimate for the section's own heading line, and it does not
\* decrease along the section order.
C27_PageOfClosingLine ==
    pc = "chunks" =>
        \A lines \in {Split(fullText, "\n")} :
            \A H \in {HeadingPositions(lines)} :
                \A B \in {{h \in H : HasBody(lines, H, h)}} :
                    /\ Len(rawSections) = Cardinality(B)
                    /\ \A h \in B :
                          /\ rawSections[RankIn(B, h)].pageNumber =
                                1 + (ClosingLine(lines, H, h) \div lines_per_page)
                          /\ rawSections[RankIn(B, h)].pageNumber >=
                                1 + ((h - 1) \div lines_per_page)
                    /\ \A i, j \in Idx(sections) :
                          i < j => sections[i].pageNumber <= sections[j].pageNumber
                    /\ \A i, j \in Idx(rawSections) :
                          i < j => rawSections[i].pageNumber <= rawSections[j].pageNumber

\* C27 witness: a section whose heading is the first line of the text was
\* closed by the next heading on a later estimated page.
C27_Witness ==
    /\ pc = "chunks"
    /\ Len(rawSections) >= 2
    /\ rawSections[1].pageNumber > 1
    /\ IsHeadingLine(FirstLine(fullText))

(***************************************************************************)
(* process_directory, process_document and ingest_document with failures   *)
(***************************************************************************)
\* rest with x put behind the elements whose field is not greater
InsertByField(rest, x, field) ==
    LET k == Cardinality({i \in 1..Len(rest) : rest[i][field] <= x[field]})
    IN  SubSeq(rest, 1, k) \o <<x>> \o SubSeq(rest, k + 1, Len(rest))

\* sorted(q[:n], key=lambda x: x[field]): stable, ascending
RECURSIVE SortedByField(_, _, _)
SortedByField(q, n, field) ==
    IF n = 0 THEN <<>>
    ELSE CHOOSE out \in {InsertByField(rest, q[n], field) :
                            rest \in {SortedByField(q, n - 1, field)}} : TRUE

\* one tx.run of a MERGE: the label of the node or relationship and its key
Write(label, key) == [label |-> label, key |-> key]

\* the tx.run calls of _create_next_section_relationships and of one group
\* of _create_next_chunk_relationships: consecutive elements of the list
\* sorted by the field
NextLinks(label, q, field, id) ==
    CHOOSE links \in
        {[i \in 1..(Len(sorted) - 1) |-> Write(label, <<sorted[i][id], sorted[i + 1][id]>>)] :
            sorted \in {SortedByField(q, Len(q), field)}} : TRUE

\* chunks_by_section of _create_next_chunk_relationships: the section
\* identifiers in the order of their first chunk
RECURSIVE SectionsOfChunks(_, _)
SectionsOfChunks(cs, n) ==
    IF n = 0 THEN <<>>
    ELSE CHOOSE out \in
            {IF \E i \in DOMAIN before : before[i] = cs[n].sectionId
             THEN before ELSE Append(before, cs[n].sectionId) :
                before \in {SectionsOfChunks(cs, n - 1)}} : TRUE

\* chunks_by_section[id]: the chunks of one section
ChunksOf(cs, id) == SelectSeq(cs, LAMBDA c : c.sectionId = id)

\* the tx.run calls of lines 131-158 of ingest_document, in the order it
\* makes them
IngestWrites(docId, optToc, secs, cs) ==
    <<Write("Document", docId)>>
    \o (IF optToc # None
        THEN <<Write("TableOfContents", optToc[1].tocId),
               Write("HAS_TOC", <<docId, optToc[1].tocId>>)>>
        ELSE <<>>)
    \o Concat([i \in 1..Len(secs) |->
          <<Write("Section", secs[i].sectionId),
            Write("HAS_SECTION", <<docId, secs[i].sectionId>>)>>
          \o (IF secs[i].parentSectionId # <<>>
              THEN <<Write("HAS_SUBSECTION", <<secs[i].parentSectionId, secs[i].sectionId>>)>>
              ELSE <<>>)])
    \o (IF Len(secs) < 2 THEN <<>> ELSE NextLinks("NEXT_SECTION", secs, "order", "sectionId"))
    \o Concat([i \in 1..Len(cs) |->
          <<Write("Chunk", cs[i].chunkId),
            Write("HAS_CHUNK", <<cs[i].sectionId, cs[i].chunkId>>)>>])
    \o (IF Len(cs) < 2 THEN <<>>
        ELSE CHOOSE links \in
                {Concat([g \in 1..Len(groups) |->
                    NextLinks("NEXT_CHUNK", ChunksOf(cs, groups[g]), "chunkIndex", "chunkId")]) :
                    groups \in {SectionsOfChunks(cs, Len(cs))}} : TRUE)

\* ProcessingResult(...) without its processing_time
ProcessingResult(success, docId, filename, error, sections_count, chunks_count, toc_extracted, toc_pages) ==
    [success        |-> success,
     documentId     |-> docId,
     filename       |-> filename,
     error          |-> error,
     sections_count |-> sections_count,
     chunks_count   |-> chunks_count,
     toc_extracted  |-> toc_extracted,
     toc_pages      |-> toc_pages]

\* the exceptions a stage raises: Exception() and Exception(message)
Exceptions == {[args |-> <<>>], [args |-> <<"cannot open broken document">>]}

\* str(e) of an exception
Str(e) == IF e.args = <<>> THEN "" ELSE e.args[1]

\* the PDF files of the directory: two sections without TOC, a TOC on page
\* 2 with the text on page 3, no page at all
DirectoryFiles ==
    {[name |-> "a.pdf", docType |-> "Risoluzione",
      pages |-> <<PREMESSA \o <<"\n">> \o LONG \o <<" ">> \o MULTI
                  \o <<"\n", "1", ".", "1", " ", "B", "b", "\n", "c", "o", "r", "t", "o", "\n">>>>],
     [name |-> "b.pdf", docType |-> "Circolare",
      pages |-> <<<<"A">> \o Rep("\n", lines_per_page),
                  <<"I", "N", "D", "I", "C", "E", "\n", "1", ".", " ", "A", "a", "\n",
                    "t", "i", "t", "o", "l", "o", " ", ".", " ", "3", "\n"
                    >> \o PREMESSA \o <<" ", ".", " ", "3", "\n">>,
                  PREMESSA \o <<"\n">> \o LONG \o <<" ">> \o MULTI
                  \o <<"\n", "1", ".", "1", " ", "B", "b", "\n", "c", "o", "r", "t", "o", "\n">>>>],
     [name |-> "c.pdf", docType |-> "Circolare", pages |-> <<>>]}

\* list(pdf_directory.glob(pattern)): the files in any order
Listings ==
    {q \in SeqsUpTo(DirectoryFiles, Cardinality(DirectoryFiles)) :
        \A i, j \in DOMAIN q : i # j => q[i] # q[j]}

\* the most a limit argument is
MaxLimit == 2

\* the limit argument: None or an integer
Limits == {None} \cup {Some(n) : n \in 0..MaxLimit}

\* pdf_files of process_directory (lines 147-150)
SelectedFiles(listing, limit) ==
    IF limit # None /\ limit[1] # 0
    THEN SubSeq(listing, 1, IF limit[1] < Len(listing) THEN limit[1] ELSE Len(listing))
    ELSE listing

\* what the stages return for a file and the writes ingest_document makes
\* for it
FileResult(f) ==
    CHOOSE x \in
        {[stages |-> r,
          writes |-> IngestWrites(DocumentIdOf(f.docType), r.toc, r.sections, r.chunks)] :
            r \in {StageResult(f.docType, f.pages)}} : TRUE

\* process_directory is called on a directory and a limit; pdf_files is not
\* yet built; frame.table holds what the stage functions return for each
\* file
InitDirectory ==
    /\ pc = "glob"
    /\ docType = "Circolare"
    /\ documentId = DocumentIdOf(docType)
    /\ pages = <<>>
    /\ chunk_size = 10 /\ overlap = 5
    /\ fullText = <<>>
    /\ toc = None
    /\ rawSections = <<>>
    /\ sections = <<>>
    /\ chunks = <<>>
    /\ rechunks = <<>>
    /\ workers = <<>>
    /\ results = <<>> /\ graph = {} /\ tx = None
    /\ \E table \in {{<<f, FileResult(f)>> : f \in DirectoryFiles}} :
       \E listing \in Listings, limit \in Limits :
          frame = [listing |-> listing, limit |-> limit, pdf_files |-> <<>>, i |-> 1,
                   table |-> table,
                   fullText |-> <<>>, toc |-> None, rawSections |-> <<>>,
                   sections |-> <<>>, chunks |-> <<>>,
                   writes |-> <<>>, next |-> 1, success |-> None]

\* lines 147-154: the files are selected, results is empty
SelectFiles ==
    /\ pc = "glob"
    /\ frame' = [frame EXCEPT !.pdf_files = SelectedFiles(frame.listing, frame.limit)]
    /\ results' = <<>>
    /\ pc' = "directory"
    /\ UNCHANGED <<graph, tx, workers, docType, documentId, pages, fullText, toc,
                   rawSections, sections, chunks, chunk_size, overlap, rechunks>>

\* lines 155-157: the loop calls process_document on the next file
ProcessNext ==
    /\ pc = "directory"
    /\ frame.i <= Len(frame.pdf_files)
    /\ LET f == frame.pdf_files[frame.i]
           r == (CHOOSE p \in frame.table : p[1] = f)[2]
       IN  /\ docType' = f.docType
           /\ pages' = f.pages
           /\ documentId' = DocumentIdOf(f.docType)
           /\ frame' = [frame EXCEPT !.fullText = r.stages.fullText,
                                     !.toc = r.stages.toc,
                                     !.rawSections = r.stages.rawSections,
                                     !.sections = r.stages.sections,
                                     !.chunks = r.stages.chunks,
                                     !.writes = r.writes,
                                     !.next = 1,
                                     !.success = None]
    /\ fullText' = <<>>
    /\ toc' = None
    /\ rawSections' = <<>>
    /\ sections' = <<>>
    /\ chunks' = <<>>
    /\ pc' = "parse"
    /\ UNCHANGED <<results, graph, tx, workers, chunk_size, overlap, rechunks>>

\* variant of the handler in which the failure of a document ends the loop
StageRaises_EndsLoop ==
    /\ pc \in {"parse", "toc", "sections", "chunks"}
    /\ \E e \in Exceptions :
          results' = Append(results,
                            ProcessingResult(FALSE, None, frame.pdf_files[frame.i].name,
                                             Some(Str(e)), 0, 0, FALSE, 0))
    /\ frame' = [frame EXCEPT !.i = @ + 1]
    /\ pc' = "returned"
    /\ UNCHANGED <<graph, tx, workers, docType, documentId, pages, fullText, toc,
                   rawSections, sections, chunks, chunk_size, overlap, rechunks>>

\* lines 120-128 and 158: a stage raises an exception; process_document
\* returns the failure, which the loop appends
StageRaises ==
    /\ pc \in {"parse", "toc", "sections", "chunks"}
    /\ \E e \in Exceptions :
          results' = Append(results,
                            ProcessingResult(FALSE, None, frame.pdf_files[frame.i].name,
                                             Some(Str(e)), 0, 0, FALSE, 0))
    /\ frame' = [frame EXCEPT !.i = @ + 1]
    /\ pc' = "directory"
    /\ UNCHANGED <<graph, tx, workers, docType, documentId, pages, fullText, toc,
                   rawSections, sections, chunks, chunk_size, overlap, rechunks>>

\* ingest_document, lines 128-130: the session and the transaction are opened
IngestBegin ==
    /\ pc = "ingest"
    /\ tx' = Some(<<>>)
    /\ pc' = "write"
    /\ UNCHANGED <<results, graph, frame, workers, docType, documentId, pages, fullText,
                   toc, rawSections, sections, chunks, chunk_size, overlap, rechunks>>

\* lines 131-158: the next tx.run
IngestWrite ==
    /\ pc = "write"
    /\ frame.next <= Len(frame.writes)
    /\ tx' = Some(Append(tx[1], frame.writes[frame.next]))
    /\ frame' = [frame EXCEPT !.next = @ + 1]
    /\ UNCHANGED <<pc, results, graph, workers, docType, documentId, pages, fullText,
                   toc, rawSections, sections, chunks, chunk_size, overlap, rechunks>>

\* lines 160-163: tx.commit() after the last write; ingest_document returns
\* True
IngestCommit ==
    /\ pc = "write"
    /\ frame.next > Len(frame.writes)
    /\ graph' = graph \cup Range(tx[1])
    /\ tx' = None
    /\ frame' = [frame EXCEPT !.success = Some(TRUE)]
    /\ pc' = "ingested"
    /\ UNCHANGED <<results, workers, docType, documentId, pages, fullText,
                   toc, rawSections, sections, chunks, chunk_size, overlap, rechunks>>

\* variant in which the writes made before the failure stay in the database
IngestRaises_KeepsWrites ==
    /\ pc \in {"ingest", "write"}
    /\ graph' = IF tx # None THEN graph \cup Range(tx[1]) ELSE graph
    /\ tx' = None
    /\ frame' = [frame EXCEPT !.success = Some(FALSE)]
    /\ pc' = "ingested"
    /\ UNCHANGED <<results, workers, docType, documentId, pages, fullText,
                   toc, rawSections, sections, chunks, chunk_size, overlap, rechunks>>

\* lines 165-167: opening the session or the transaction, a tx.run or
\* tx.commit() raises; leaving the with block rolls the transaction back and
\* ingest_document returns False
IngestRaises ==
    /\ pc \in {"ingest", "write"}
    /\ tx' = None
    /\ frame' = [frame EXCEPT !.success = Some(FALSE)]
    /\ pc' = "ingested"
    /\ UNCHANGED <<results, graph, workers, docType, documentId, pages, fullText,
                   toc, rawSections, sections, chunks, chunk_size, overlap, rechunks>>

\* lines 95-118 and 158: process_document returns the result of the
\* ingestion, which the loop appends
DocumentReturns ==
    /\ pc = "ingested"
    /\ results' = Append(results,
                     IF frame.success = Some(TRUE)
                     THEN ProcessingResult(TRUE, Some(documentId), frame.pdf_files[frame.i].name,
                                           None, Len(sections), Len(chunks),
                                           toc # None, TocPages(toc))
                     ELSE ProcessingResult(FALSE, None, frame.pdf_files[frame.i].name,
                                           Some("Ingestion failed"), 0, 0, FALSE, 0))
    /\ frame' = [frame EXCEPT !.i = @ + 1]
    /\ pc' = "directory"
    /\ UNCHANGED <<graph, tx, workers, docType, documentId, pages, fullText, toc,
                   rawSections, sections, chunks, chunk_size, overlap, rechunks>>

\* line 160: process_directory returns results
DirectoryReturns ==
    /\ pc = "directory"
    /\ frame.i > Len(frame.pdf_files)
    /\ pc' = "returned"
    /\ UNCHANGED <<results, graph, tx, frame, workers, docType, documentId, pages, fullText,
                   toc, rawSections, sections, chunks, chunk_size, overlap, rechunks>>

NextDirectory ==
    \/ SelectFiles
    \/ ProcessNext
    \/ ParseStage
    \/ TocStage
    \/ SectionsStage
    \/ ChunksStage
    \/ StageRaises
    \/ IngestBegin
    \/ IngestWrite
    \/ IngestCommit
    \/ IngestRaises
    \/ DocumentReturns
    \/ DirectoryReturns

\* process_directory on a directory of files, each stage and each database
\* operation succeeding or raising; the loop is sequential code, so a step
\* that can run does run
SpecDirectory == InitDirectory /\ [][NextDirectory]_vars /\ WF_vars(NextDirectory)

\* the stage that runs before each stage of process_document
StageBefore ==
    [toc |-> "parse", sections |-> "toc", chunks |-> "sections", ingest |-> "chunks"]

\* C28: process_document never raises; its stages run in the order parse, TOC
\* extraction, section extraction, chunking, ingestion; the transaction of
\* the ingestion is opened only once all earlier stages have returned; the
\* result has success = true, with the documentId and the section and chunk
\* counts, exactly if ingest_document returned true, and otherwise it has
\* success = false and a non-empty error, 'Ingestion failed' after a failed
\* ingestion
C28_ProcessDocumentResult ==
    [][/\ pc' # "raised"
       /\ (pc' # pc /\ pc' \in DOMAIN StageBefore) => pc = StageBefore[pc']
       /\ (tx = None /\ tx' # None) =>
             /\ pc = "ingest"
             /\ fullText = frame.fullText /\ toc = frame.toc
             /\ sections = frame.sections /\ chunks = frame.chunks
       /\ Len(results') > Len(results) =>
             LET r == results'[Len(results')]
             IN  /\ results' = Append(results, r)
                 /\ r.filename = frame.pdf_files[frame.i].name
                 /\ r.success <=> (pc = "ingested" /\ frame.success = Some(TRUE))
                 /\ r.success =>
                       /\ r.documentId = Some(documentId)
                       /\ r.sections_count = Len(sections)
                       /\ r.chunks_count = Len(chunks)
                 /\ ~r.success =>
                       /\ r.error # None
                       /\ r.error[1] # ""
                       /\ pc = "ingested" => r.error = Some("Ingestion failed")]_vars

\* C29: ingest_document is atomic: one transaction is opened per call and all
\* tx.run calls of the document are made inside it without changing the
\* database; the database changes only at the commit, which follows the last
\* write and adds every node and relationship of the document; a call in
\* which opening, a write or the commit raises returns false and leaves the
\* database as it was
C29_IngestAtomic ==
    [][/\ (tx = None /\ tx' # None) => (pc = "ingest" /\ tx' = Some(<<>>))
       /\ (tx # None /\ tx' # None) =>
             /\ graph' = graph
             /\ \E w \in Range(IngestWrites(documentId, toc, sections, chunks)) :
                   tx' = Some(Append(tx[1], w))
       /\ (graph' # graph \/ (tx # None /\ tx' = None)) =>
             IF frame'.success = Some(TRUE)
             THEN /\ tx = Some(IngestWrites(documentId, toc, sections, chunks))
                  /\ graph' = graph \cup Range(tx[1])
             ELSE graph' = graph
       /\ (pc \in {"ingest", "write"} /\ pc' # "write") =>
             /\ pc' = "ingested"
             /\ tx' = None
             /\ frame'.success \in {Some(TRUE), Some(FALSE)}
       /\ (pc \in {"ingest", "write"} /\ frame'.success = Some(FALSE)) => graph' = graph]_vars

\* an ingestion failed after some of its writes, a document ingested before
\* is in the database and the writes of the failed call are not
C29_Witness ==
    /\ pc = "ingested"
    /\ frame.success = Some(FALSE)
    /\ frame.next > 2
    /\ graph # {}
    /\ \E k \in 1..(frame.next - 1) : frame.writes[k] \notin graph

====
